---- MODULE Spec2Model ----
(***************************************************************************)
(* contract-scout: the report builder of email_templates.py (score         *)
(* filters, ranking, category grouping, monitor truncation) and the        *)
(* keyword category classifier of dme_analyzer.py.                         *)
(*                                                                         *)
(* A Python dict is a function whose DOMAIN is the set of keys present, so *)
(* dict.get(key, default) is Get below.  A rendered string is the sequence *)
(* of the lines the code appends, each line a record of the values it      *)
(* prints.  A text is a sequence of one-character strings.                 *)
(***************************************************************************)
EXTENDS Integers, Sequences, FiniteSets, TLC

VARIABLES
    dme_opportunities,        \* create_opportunity_email's first argument
    consulting_opportunities, \* create_opportunity_email's second argument
    html,                     \* the HTML body returned (<<>> before the call)
    plain,                    \* the plain body returned (<<>> before the call)
    pc,                       \* position of the caller
    vocab,                    \* which classifier is under test: "dme" / "consulting"
    title,                    \* the opportunity title given to the classifier
    description,              \* the opportunity description given to it
    matched,                  \* the classifier's local list `matched`
    category,                 \* the label returned (<<>> before the call)
    csv_file,                 \* CSV_FILE on disk: [exists, lines]
    csv_results,              \* the argument of the latest log_to_csv call
    csv_calls,                \* how many log_to_csv calls have returned
    responseDeadLine,         \* the deadline text given to the deadline helpers
    utc_today,                \* datetime.now(timezone.utc).date()
    days_until,               \* what _days_until returned (<<>> before the call)
    fmt_deadline,             \* what _fmt_deadline returned (<<>> before the call)
    card_opp,                 \* the opportunity given to _html_card (<<>> when none)
    card_rank,                \* its rank within its category group
    card_is_dme,              \* the track flag given to _html_card
    card_html,                \* the text _html_card returned (<<>> before the call)
    entry,                    \* the entry point that runs: "main" / "analyze" / "analyze_consulting"
    env,                      \* os.environ: the variables that are set, with their values
    main_opportunities,       \* main's `opportunities` / the analyzer's argument
    search_params,            \* <<the query parameters of the search request>>, <<>> before it
    search_response,          \* <<the response of the search service>>, <<>> before it
    raw_response,             \* <<the text the scoring engine answered with>>, <<>> before it
    main_scores,              \* main's `scores`
    main_results,             \* main's `results` / the list the analyzer returned
    main_top,                 \* main's `top`
    search_requests,          \* requests.get calls made
    scoring_requests,         \* messages.create calls made
    emails_sent,              \* messages handed to the SMTP server
    email_body,               \* <<the HTML body of the message sent>>, <<>> before it
    warnings,                 \* log.warning records written
    exit_status               \* "running", "returned", "exit(1)" or "raised"

emailVars == <<dme_opportunities, consulting_opportunities, html, plain>>
classifierVars == <<vocab, title, description, matched, category>>
csvVars == <<csv_file, csv_results, csv_calls>>
deadlineVars == <<responseDeadLine, utc_today, days_until, fmt_deadline>>
runVars == <<entry, env, main_opportunities, search_params, search_response, raw_response, main_scores, main_results, main_top, search_requests, scoring_requests, emails_sent, email_body, warnings, exit_status>>

cardVars == <<card_opp, card_rank, card_is_dme, card_html>>

vars == <<emailVars, classifierVars, csvVars, deadlineVars, cardVars, runVars, pc>>

\* the parts of the state a run of another operation leaves at rest
EmailIdle == dme_opportunities = <<>> /\ consulting_opportunities = <<>> /\ html = <<>> /\ plain = <<>>

ClassifierIdle == vocab = "none" /\ title = <<>> /\ description = <<>> /\ matched = <<>> /\ category = <<>>

CsvIdle == csv_file = [exists |-> FALSE, lines |-> <<>>] /\ csv_results = <<>> /\ csv_calls = 0

DeadlineIdle == responseDeadLine = <<>> /\ utc_today = <<>> /\ days_until = <<>> /\ fmt_deadline = <<>>

CardIdle == card_opp = <<>> /\ card_rank = 0 /\ card_is_dme = FALSE /\ card_html = <<>>

RunIdle ==
    /\ entry = "none" /\ env = <<>> /\ main_opportunities = <<>> /\ search_params = <<>> /\ search_response = <<>> /\ raw_response = <<>> /\ main_scores = <<>>
    /\ main_results = <<>> /\ main_top = <<>> /\ search_requests = 0 /\ scoring_requests = 0
    /\ emails_sent = 0 /\ email_body = <<>> /\ warnings = 0 /\ exit_status = "running"


(***************************************************************************)
(* Generic helpers                                                         *)
(***************************************************************************)

\* dict.get(key, default)
Get(d, key, default) == IF key \in DOMAIN d THEN d[key] ELSE default

\* the empty dict {}
EmptyDict == [k \in {} |-> 0]

\* seq[:n]
Take(seq, n) == SubSeq(seq, 1, IF Len(seq) < n THEN Len(seq) ELSE n)

\* whether x is an element of the list
InSeq(x, seq) == \E i \in 1..Len(seq) : seq[i] = x

\* all sequences over S of length at most n
SeqsUpTo(S, n) == UNION {[1..k -> S] : k \in 0..n}

(***************************************************************************)
(* email_templates.py: configuration                                       *)
(***************************************************************************)

CATEGORY_ORDER == <<"Wheelchairs - Power", "Hospital Beds", "Wheelchairs - Manual", "Mobility Scooters", "Patient Lifts", "Walkers and Mobility Aids", "Bathroom Safety", "Mixed DME", "Other Medical Equipment">>

CONSULTING_CATEGORY_ORDER == <<"Process Improvement & Operational Excellence", "Agile Transformation & Project Management", "Automation & Digital Transformation", "Training & Organizational Development", "Management Consulting", "Other Consulting">>

MIN_SCORE_NO_PP == 5
MIN_SCORE_NEEDS_PP == 6
MAX_NEEDS_PP_SHOWN == 5

(***************************************************************************)
(* email_templates.py: the score key, the stable descending sort and the   *)
(* two bucket filters                                                      *)
(***************************************************************************)

\* key=lambda x: x.get("score", 0)
ScoreKey(o) == Get(o, "score", 0)

\* Amounts of money are carried in cents: 10050 stands for 100.50.
\* o.get("estimated_profit", {}).get("net_profit", 0)
NetProfitOf(o) == Get(Get(o, "estimated_profit", EmptyDict), "net_profit", 0)

\* mutant: the last element is left out of the sum
RECURSIVE SumNetProfitButLast(_)
SumNetProfitButLast(seq) == IF Len(seq) <= 1 THEN 0 ELSE NetProfitOf(Head(seq)) + SumNetProfitButLast(Tail(seq))

\* sum(... net_profit ... for o in opportunities)
RECURSIVE SumNetProfit(_)
SumNetProfit(seq) == IF seq = <<>> THEN 0 ELSE NetProfitOf(Head(seq)) + SumNetProfit(Tail(seq))

\* f"{x:,.0f}": the amount rounded to whole dollars, a tie going to the even
\* neighbour
Format0f(cents) ==
    LET q == cents \div 100
        r == cents % 100
    IN  IF r < 50 THEN q
        ELSE IF r > 50 THEN q + 1
        ELSE IF q % 2 = 0 THEN q ELSE q + 1

\* An unstable insertion: the new element goes before the elements of equal key.
RECURSIVE InsertDescUnstable(_, _)
InsertDescUnstable(sorted, o) == IF sorted = <<>> THEN <<o>> ELSE IF ScoreKey(Head(sorted)) > ScoreKey(o) THEN <<Head(sorted)>> \o InsertDescUnstable(Tail(sorted), o) ELSE <<o>> \o sorted

\* One step of sorted(..., reverse=True): o, which comes after every element
\* of `sorted` in the input, is placed after the elements whose key is >= its own.
RECURSIVE InsertDesc(_, _)
InsertDesc(sorted, o) ==
    IF sorted = <<>> THEN <<o>>
    ELSE IF ScoreKey(Head(sorted)) >= ScoreKey(o)
         THEN <<Head(sorted)>> \o InsertDesc(Tail(sorted), o)
         ELSE <<o>> \o sorted

\* sorted(seq, key=lambda x: x.get("score", 0), reverse=True): stable
RECURSIVE SortedByScoreDesc(_)
SortedByScoreDesc(seq) ==
    IF seq = <<>> THEN <<>>
    ELSE InsertDesc(SortedByScoreDesc(SubSeq(seq, 1, Len(seq) - 1)), seq[Len(seq)])

\* A filter that lets an opportunity without the flag through.
IsNoPPDefaultFalse(o) == ~Get(o, "requires_past_performance", FALSE) /\ Get(o, "score", 0) >= MIN_SCORE_NO_PP

\* not o.get("requires_past_performance", True) and o.get("score", 0) >= MIN_SCORE_NO_PP
IsNoPP(o) ==
    /\ ~Get(o, "requires_past_performance", TRUE)
    /\ Get(o, "score", 0) >= MIN_SCORE_NO_PP

\* A filter that uses the Qualified threshold for the Monitor bucket.
IsNeedsPPLowBar(o) == Get(o, "requires_past_performance", TRUE) /\ Get(o, "score", 0) >= MIN_SCORE_NO_PP

\* o.get("requires_past_performance", True) and o.get("score", 0) >= MIN_SCORE_NEEDS_PP
IsNeedsPP(o) ==
    /\ Get(o, "requires_past_performance", TRUE)
    /\ Get(o, "score", 0) >= MIN_SCORE_NEEDS_PP

\* the no_pp list of _html_part and of _build_plain_email
NoPPBucket(opportunities) == SortedByScoreDesc(SelectSeq(opportunities, IsNoPP))

\* the needs_pp list of _html_part and of _build_plain_email
NeedsPPBucket(opportunities) == SortedByScoreDesc(SelectSeq(opportunities, IsNeedsPP))

\* sum(1 for o in opps if o.get("bid_recommendation") == "BID")
BidCount(opps) == Len(SelectSeq(opps, LAMBDA o : Get(o, "bid_recommendation", "None") = "BID"))

(***************************************************************************)
(* email_templates.py: HTML rendering                                      *)
(***************************************************************************)

\* _html_card: the card of one opportunity.  The identifying strings printed
\* (title, agency, solicitation number, link) are stood for by the noticeId.
_html_card(rank, opp, is_dme) ==
    [kind |-> "card", rank |-> rank, id |-> Get(opp, "noticeId", ""),
     score |-> Get(opp, "score", 0), net_profit |-> Format0f(NetProfitOf(opp)),
     items_label |-> IF is_dme THEN "Products" ELSE "Services"]

\* opp.get("category", default_cat)
CategoryOf(opp, default_cat) == Get(opp, "category", default_cat)

\* the keys of by_cat in insertion order: the categories of the list in the
\* order of their first appearance
RECURSIVE ByCatKeys(_, _)
ByCatKeys(opportunities, default_cat) ==
    IF opportunities = <<>> THEN <<>>
    ELSE LET n == Len(opportunities)
             before == ByCatKeys(SubSeq(opportunities, 1, n - 1), default_cat)
             c == CategoryOf(opportunities[n], default_cat)
         IN  IF InSeq(c, before) THEN before ELSE Append(before, c)

\* by_cat[cat]: the opportunities of one category, in list order
ByCat(opportunities, default_cat, cat) == SelectSeq(opportunities, LAMBDA o : CategoryOf(o, default_cat) = cat)

\* An ordering that ignores cat_order: every category in first-seen order.
OrderedCatsFirstSeen(opportunities, cat_order, default_cat) == ByCatKeys(opportunities, default_cat)

\* ordered_cats = [c for c in cat_order if c in by_cat]
\*              + [c for c in by_cat if c not in cat_order]
OrderedCats(opportunities, cat_order, default_cat) ==
    LET keys == ByCatKeys(opportunities, default_cat)
    IN  SelectSeq(cat_order, LAMBDA c : InSeq(c, keys)) \o SelectSeq(keys, LAMBDA c : ~InSeq(c, cat_order))

\* for rank, opp in enumerate(cat_opps, start=1): lines.append(_html_card(...))
CardLines(cat_opps, is_dme) == [i \in 1..Len(cat_opps) |-> _html_card(i, cat_opps[i], is_dme)]

\* the body of "for cat in ordered_cats": the group header, then its cards
RECURSIVE CategoryGroups(_, _, _, _)
CategoryGroups(cats, opportunities, is_dme, default_cat) ==
    IF cats = <<>> THEN <<>>
    ELSE LET cat == Head(cats)
             cat_opps == SortedByScoreDesc(ByCat(opportunities, default_cat, cat))
             hdr == [kind |-> "cat-hdr", cat |-> cat, count |-> Len(cat_opps), profit |-> Format0f(SumNetProfit(cat_opps))]
         IN  <<hdr>> \o CardLines(cat_opps, is_dme) \o CategoryGroups(Tail(cats), opportunities, is_dme, default_cat)

\* _html_no_pp_section
_html_no_pp_section(opportunities, is_dme, cat_order, default_cat) ==
    LET label == [kind |-> "sec-label", count |-> Len(opportunities), net_potential |-> Format0f(SumNetProfit(opportunities))]
    IN  IF opportunities = <<>>
        THEN <<label, [kind |-> "no-opps"]>>
        ELSE <<label>> \o CategoryGroups(OrderedCats(opportunities, cat_order, default_cat), opportunities, is_dme, default_cat)

\* the "brief" line of one Monitor entry
BriefLine(opp) == [kind |-> "brief", id |-> Get(opp, "noticeId", ""), score |-> Get(opp, "score", 0)]

\* A Monitor section that shows one entry more than the maximum.
HtmlNeedsPPShowsOneMore(opportunities) == <<[kind |-> "sec-label", count |-> Len(opportunities)]>> \o [i \in 1..Len(Take(opportunities, MAX_NEEDS_PP_SHOWN + 1)) |-> BriefLine(opportunities[i])] \o (IF Len(opportunities) > MAX_NEEDS_PP_SHOWN THEN <<[kind |-> "more", count |-> Len(opportunities) - MAX_NEEDS_PP_SHOWN]>> ELSE <<>>)

\* _html_needs_pp_section
_html_needs_pp_section(opportunities) ==
    LET shown == Take(opportunities, MAX_NEEDS_PP_SHOWN)
        label == [kind |-> "sec-label", count |-> Len(opportunities)]
    IN  IF opportunities = <<>>
        THEN <<label, [kind |-> "no-opps"]>>
        ELSE <<label>>
             \o [i \in 1..Len(shown) |-> BriefLine(shown[i])]
             \o (IF Len(opportunities) > MAX_NEEDS_PP_SHOWN
                 THEN <<[kind |-> "more", count |-> Len(opportunities) - MAX_NEEDS_PP_SHOWN]>>
                 ELSE <<>>)

\* _html_part: the two sections of one track
_html_part(opportunities, is_dme) ==
    LET cat_order == IF is_dme THEN CATEGORY_ORDER ELSE CONSULTING_CATEGORY_ORDER
        default_cat == IF is_dme THEN "Other Medical Equipment" ELSE "Other Consulting"
        no_pp == NoPPBucket(opportunities)
        needs_pp == NeedsPPBucket(opportunities)
    IN  [no_pp |-> _html_no_pp_section(no_pp, is_dme, cat_order, default_cat),
         needs_pp |-> _html_needs_pp_section(needs_pp)]

\* _html_header: the counts of the header line
_html_header(dme, consulting) ==
    [dme_count |-> Len(dme), dme_bid |-> BidCount(dme),
     con_count |-> Len(consulting), con_bid |-> BidCount(consulting)]

\* _html_summary: the five figures of the summary box
_html_summary(dme, consulting) ==
    LET all_opps == dme \o consulting
    IN  [high_priority |-> Len(SelectSeq(all_opps, LAMBDA o : Get(o, "score", 0) >= 8 /\ ~Get(o, "requires_past_performance", TRUE))),
         review |-> Len(SelectSeq(all_opps, LAMBDA o : 5 <= Get(o, "score", 0) /\ Get(o, "score", 0) <= 7 /\ ~Get(o, "requires_past_performance", TRUE))),
         monitor |-> Len(SelectSeq(all_opps, IsNeedsPP)),
         dme_profit |-> Format0f(SumNetProfit(SelectSeq(dme, IsNoPP))),
         con_profit |-> Format0f(SumNetProfit(SelectSeq(consulting, IsNoPP)))]

\* _build_html_email
_build_html_email(dme, consulting) ==
    [header |-> _html_header(dme, consulting),
     summary |-> _html_summary(dme, consulting),
     part1 |-> _html_part(dme, TRUE),
     part2 |-> _html_part(consulting, FALSE)]

(***************************************************************************)
(* email_templates.py: plain-text rendering                                *)
(***************************************************************************)

\* _plain_card
_plain_card(rank, opp, is_dme) ==
    [kind |-> "card", rank |-> rank, id |-> Get(opp, "noticeId", ""),
     score |-> Get(opp, "score", 0), net_profit |-> Format0f(NetProfitOf(opp)),
     items_label |-> IF is_dme THEN "Products" ELSE "Services"]

\* _plain_no_pp_section
_plain_no_pp_section(opportunities, is_dme) ==
    LET label == [kind |-> "sec-label", count |-> Len(opportunities), net_potential |-> Format0f(SumNetProfit(opportunities))]
    IN  IF opportunities = <<>>
        THEN <<label, [kind |-> "no-opps"]>>
        ELSE <<label>> \o [i \in 1..Len(opportunities) |-> _plain_card(i, opportunities[i], is_dme)]

\* A plain Monitor section that lists the whole bucket.
PlainNeedsPPShowsAll(opportunities) ==
    LET label == [kind |-> "sec-label", count |-> Len(opportunities)]
    IN  IF opportunities = <<>>
        THEN <<label, [kind |-> "no-opps"]>>
        ELSE <<label>> \o [i \in 1..Len(opportunities) |-> BriefLine(opportunities[i])]

\* _plain_needs_pp_section
_plain_needs_pp_section(opportunities) ==
    LET shown == Take(opportunities, MAX_NEEDS_PP_SHOWN)
        label == [kind |-> "sec-label", count |-> Len(opportunities)]
    IN  IF opportunities = <<>>
        THEN <<label, [kind |-> "no-opps"]>>
        ELSE <<label>>
             \o [i \in 1..Len(shown) |-> BriefLine(shown[i])]
             \o (IF Len(opportunities) > MAX_NEEDS_PP_SHOWN
                 THEN <<[kind |-> "more", count |-> Len(opportunities) - MAX_NEEDS_PP_SHOWN]>>
                 ELSE <<>>)

\* _build_plain_email
_build_plain_email(dme, consulting) ==
    [head |-> [dme_count |-> Len(dme), dme_bid |-> BidCount(dme), dme_profit |-> Format0f(SumNetProfit(SelectSeq(dme, IsNoPP))),
               con_count |-> Len(consulting), con_bid |-> BidCount(consulting), con_profit |-> Format0f(SumNetProfit(SelectSeq(consulting, IsNoPP)))],
     part1 |-> [no_pp |-> _plain_no_pp_section(NoPPBucket(dme), TRUE),
                needs_pp |-> _plain_needs_pp_section(NeedsPPBucket(dme))],
     part2 |-> [no_pp |-> _plain_no_pp_section(NoPPBucket(consulting), FALSE),
                needs_pp |-> _plain_needs_pp_section(NeedsPPBucket(consulting))]]

(***************************************************************************)
(* Inputs of create_opportunity_email.  An optional field is <<>> (key     *)
(* absent) or <<v>> (key present with value v).  The noticeId of an        *)
(* opportunity is its position in the list it is passed in.                *)
(***************************************************************************)

MaxOpps == 3
MaxGroupOpps == 3
MaxMonitorOpps == 6

\* a scored-opportunity dict with the keys that are present
MkOpp(id, s, p, c, e) ==
    [k \in {"noticeId"} \cup (IF s = <<>> THEN {} ELSE {"score"})
                        \cup (IF p = <<>> THEN {} ELSE {"requires_past_performance"})
                        \cup (IF c = <<>> THEN {} ELSE {"category"})
                        \cup (IF e = <<>> THEN {} ELSE {"estimated_profit"})
       |-> CASE k = "noticeId" -> id
             [] k = "score" -> s[1]
             [] k = "requires_past_performance" -> p[1]
             [] k = "category" -> c[1]
             [] k = "estimated_profit" -> [net_profit |-> e[1]]]

\* the lists of at most n opportunities whose fields are drawn from pool
ListsOver(pool, n) == {[i \in DOMAIN f |-> MkOpp(i, f[i][1], f[i][2], f[i][3], f[i][4])] : f \in SeqsUpTo(pool, n)}

\* score and flag vary, each possibly absent: bucket membership
MembershipPool == {<<>>, <<4>>, <<5>>, <<6>>} \X {<<>>, <<TRUE>>, <<FALSE>>} \X {<<>>} \X {<<>>}

\* categories a track's list carries: none, two of the configured order
\* (the later one first), two that the configured order does not list
CategoryOpts(is_dme) ==
    IF is_dme
    THEN {<<>>, <<"Mobility Scooters">>, <<"Hospital Beds">>, <<"Oxygen Equipment">>, <<"Compression Devices">>}
    ELSE {<<>>, <<"Management Consulting">>, <<"Training & Organizational Development">>, <<"Process Improvement">>, <<"Agile & Project Management">>}

\* Qualified opportunities of two scores over the categories: ranking and
\* grouping; the one of score 5 nets 100.50, the one of score 9 nets 100.00
GroupingPool(is_dme) ==
    ({<<5>>} \X {<<FALSE>>} \X CategoryOpts(is_dme) \X {<<10050>>}) \cup ({<<9>>} \X {<<FALSE>>} \X CategoryOpts(is_dme) \X {<<10000>>})

\* Monitor opportunities: the truncation to MAX_NEEDS_PP_SHOWN
MonitorPool == {<<<<6>>, <<TRUE>>, <<>>, <<>>>>, <<<<9>>, <<TRUE>>, <<>>, <<>>>>, <<<<9>>, <<>>, <<>>, <<>>>>}

\* the end-to-end scenario: A{score 9, pp false}, B{score 6, pp true}
ScenarioInput == <<MkOpp(1, <<9>>, <<FALSE>>, <<>>, <<>>), MkOpp(2, <<6>>, <<TRUE>>, <<>>, <<>>)>>

\* the lists given for one track
TrackInputs(is_dme) ==
    ListsOver(MembershipPool, MaxOpps) \cup ListsOver(GroupingPool(is_dme), MaxGroupOpps) \cup ListsOver(MonitorPool, MaxMonitorOpps) \cup {ScenarioInput}

\* the list given for the other track: empty, or one Qualified opportunity
OtherInputs == {<<>>, <<MkOpp(101, <<8>>, <<FALSE>>, <<>>, <<25000>>)>>}

InitEmail ==
    /\ \E is_dme \in BOOLEAN : \E main \in TrackInputs(is_dme) : \E other \in OtherInputs :
          /\ dme_opportunities = (IF is_dme THEN main ELSE other)
          /\ consulting_opportunities = (IF is_dme THEN other ELSE main)
    /\ html = <<>>
    /\ plain = <<>>
    /\ pc = "start"
    /\ ClassifierIdle
    /\ CsvIdle
    /\ DeadlineIdle /\ CardIdle
    /\ RunIdle

\* mutant: the list is ordered with list.sort instead of sorted
ArgumentSortedInPlace(opportunities) == SortedByScoreDesc(opportunities)

\* the caller's list once the builders have run: they only read it (the
\* comprehensions and sorted() build new lists, the slices copy, the
\* records are read with .get and grouped into a local dict)
ArgumentAfterCall(opportunities) == opportunities

\* create_opportunity_email(dme_opportunities, consulting_opportunities)
create_opportunity_email ==
    /\ pc = "start"
    /\ html' = _build_html_email(dme_opportunities, consulting_opportunities)
    /\ plain' = _build_plain_email(dme_opportunities, consulting_opportunities)
    /\ dme_opportunities' = ArgumentAfterCall(dme_opportunities)
    /\ consulting_opportunities' = ArgumentAfterCall(consulting_opportunities)
    /\ pc' = "done"
    /\ UNCHANGED <<classifierVars, csvVars, deadlineVars, cardVars, runVars>>

NextEmail == create_opportunity_email

SpecEmail == InitEmail /\ [][NextEmail]_vars

(***************************************************************************)
(* Reading the rendered report                                             *)
(***************************************************************************)

\* the two tracks: the input list and the sections rendered from it
Tracks ==
    {[input |-> dme_opportunities, html |-> html.part1, plain |-> plain.part1, order |-> CATEGORY_ORDER, default |-> "Other Medical Equipment"],
     [input |-> consulting_opportunities, html |-> html.part2, plain |-> plain.part2, order |-> CONSULTING_CATEGORY_ORDER, default |-> "Other Consulting"]}

LinesOfKind(lines, kind) == SelectSeq(lines, LAMBDA l : l.kind = kind)
IdsOf(lines) == {lines[i].id : i \in 1..Len(lines)}
Elems(seq) == {seq[i] : i \in 1..Len(seq)}
HasKey(o, k) == k \in DOMAIN o
IndexOf(seq, x) == CHOOSE i \in 1..Len(seq) : seq[i] = x
Min(a, b) == IF a <= b THEN a ELSE b

\* the opportunities the claims call Qualified and Monitor, stated on the input
\* records with the thresholds written out
MeetsQualified(o) == HasKey(o, "requires_past_performance") /\ o.requires_past_performance = FALSE /\ HasKey(o, "score") /\ o.score >= 5
MeetsMonitor(o) == (HasKey(o, "requires_past_performance") => o.requires_past_performance = TRUE) /\ HasKey(o, "score") /\ o.score >= 6
QualifiedIdsOf(input) == {o.noticeId : o \in {x \in Elems(input) : MeetsQualified(x)}}
MonitorIdsOf(input) == {o.noticeId : o \in {x \in Elems(input) : MeetsMonitor(x)}}

\* the score of the input opportunity with a given noticeId
InputById(input, id) == CHOOSE o \in Elems(input) : o.noticeId = id

(***************************************************************************)
(* C1: in both renderings, the Qualified section of a track holds exactly  *)
(* the opportunities with requires_past_performance false and score >= 5   *)
(* and its Monitor section counts exactly those with past performance      *)
(* required and score >= 6, showing only such entries (all of them while   *)
(* they fit); no opportunity is in both sections.                          *)
(***************************************************************************)
C1_BucketsExact ==
    pc = "done" =>
        \A t \in Tracks : \A r \in {t.html, t.plain} :
            /\ IdsOf(LinesOfKind(r.no_pp, "card")) = QualifiedIdsOf(t.input)
            /\ Len(LinesOfKind(r.no_pp, "card")) = Cardinality(QualifiedIdsOf(t.input))
            /\ r.no_pp[1].count = Cardinality(QualifiedIdsOf(t.input))
            /\ r.needs_pp[1].count = Cardinality(MonitorIdsOf(t.input))
            /\ IdsOf(LinesOfKind(r.needs_pp, "brief")) \subseteq MonitorIdsOf(t.input)
            /\ (Cardinality(MonitorIdsOf(t.input)) <= 5 => IdsOf(LinesOfKind(r.needs_pp, "brief")) = MonitorIdsOf(t.input))
            /\ IdsOf(LinesOfKind(r.no_pp, "card")) \cap IdsOf(LinesOfKind(r.needs_pp, "brief")) = {}

\* the spec's scenario: A{score 9, pp false}, B{score 6, pp true} rendered as
\* Qualified=[A], Monitor=[B]
C1_Witness ==
    /\ pc = "done"
    /\ dme_opportunities = ScenarioInput
    /\ IdsOf(LinesOfKind(html.part1.no_pp, "card")) = {1}
    /\ IdsOf(LinesOfKind(html.part1.needs_pp, "brief")) = {2}

(***************************************************************************)
(* C2: the Qualified bucket (the plain cards, printed in bucket order) and *)
(* every category group of the HTML Qualified section are in               *)
(* non-increasing score order, and opportunities of equal score keep their *)
(* input order (the noticeId is the input position).                       *)
(***************************************************************************)
RankedBefore(a, b) == a.score > b.score \/ (a.score = b.score /\ a.id < b.id)

C2_StableDescending ==
    pc = "done" =>
        \A t \in Tracks :
            /\ LET cards == LinesOfKind(t.plain.no_pp, "card")
               IN  \A i, j \in 1..Len(cards) : i < j => RankedBefore(cards[i], cards[j])
            /\ LET lines == t.html.no_pp
               IN  \A i, j \in 1..Len(lines) :
                      (i < j /\ \A k \in i..j : lines[k].kind = "card") => RankedBefore(lines[i], lines[j])

\* two opportunities of equal score, and a higher one after them in the input,
\* rendered in one category group
C2_Witness ==
    /\ pc = "done"
    /\ \E t \in Tracks : \E i, j, k \in 1..Len(t.input) :
          /\ i < j /\ j < k
          /\ MeetsQualified(t.input[i]) /\ MeetsQualified(t.input[j]) /\ MeetsQualified(t.input[k])
          /\ t.input[i].score = t.input[j].score /\ t.input[k].score > t.input[j].score
          /\ CategoryOf(t.input[i], t.default) = CategoryOf(t.input[j], t.default)
          /\ CategoryOf(t.input[k], t.default) = CategoryOf(t.input[j], t.default)
          /\ Len(LinesOfKind(t.html.no_pp, "card")) = 3

(***************************************************************************)
(* C3: for a Monitor bucket of T entries, both renderings show the first   *)
(* min(T, 5) entries of the bucket in descending score order (no entry     *)
(* left out scores higher than one shown), and end with an "...and N more" *)
(* line exactly when T > 5, with N = T - 5 > 0 and shown + N = T.          *)
(***************************************************************************)
C3_MonitorTruncation ==
    pc = "done" =>
        \A t \in Tracks : \A r \in {t.html, t.plain} :
            LET T == Cardinality(MonitorIdsOf(t.input))
                shown == LinesOfKind(r.needs_pp, "brief")
                more == LinesOfKind(r.needs_pp, "more")
            IN  /\ Len(shown) = Min(T, 5)
                /\ Cardinality(IdsOf(shown)) = Len(shown)
                /\ IdsOf(shown) \subseteq MonitorIdsOf(t.input)
                /\ \A i, j \in 1..Len(shown) : i < j => shown[i].score >= shown[j].score
                /\ \A id \in MonitorIdsOf(t.input) \ IdsOf(shown) : \A i \in 1..Len(shown) : shown[i].score >= InputById(t.input, id).score
                /\ (T > 5 => /\ Len(more) = 1
                             /\ more[1].count = T - 5
                             /\ more[1].count > 0
                             /\ Len(shown) + more[1].count = T
                             /\ r.needs_pp[Len(r.needs_pp)].kind = "more")
                /\ (T <= 5 => more = <<>>)

\* a Monitor bucket of more than 5 entries with two different scores, rendered
C3_Witness ==
    /\ pc = "done"
    /\ \E t \in Tracks :
          /\ Cardinality(MonitorIdsOf(t.input)) > 5
          /\ \E a, b \in Elems(t.input) : MeetsMonitor(a) /\ MeetsMonitor(b) /\ a.score # b.score
          /\ Len(LinesOfKind(t.html.needs_pp, "more")) = 1
          /\ Len(LinesOfKind(t.plain.needs_pp, "more")) = 1

(***************************************************************************)
(* C4 as stated: an opportunity that lacks its score or lacks its          *)
(* requires_past_performance field is never in Qualified, and one that     *)
(* lacks the flag is in Monitor (seen among the entries shown whenever the *)
(* Monitor bucket is not truncated).                                       *)
(***************************************************************************)
LacksField(o) == ~HasKey(o, "score") \/ ~HasKey(o, "requires_past_performance")

C4_MissingFlagFallsIntoMonitor ==
    pc = "done" =>
        \A t \in Tracks : \A r \in {t.html, t.plain} : \A o \in Elems(t.input) :
            /\ LacksField(o) => o.noticeId \notin IdsOf(LinesOfKind(r.no_pp, "card"))
            /\ (~HasKey(o, "requires_past_performance") /\ r.needs_pp[1].count <= 5)
                  => o.noticeId \in IdsOf(LinesOfKind(r.needs_pp, "brief"))

(***************************************************************************)
(* C4 amended: an opportunity that lacks its score or its flag is never in *)
(* Qualified; a missing score counts as 0, so that opportunity is in       *)
(* neither bucket; a missing flag counts as "past performance required",   *)
(* so that opportunity is in Monitor exactly when its score is >= 6 and    *)
(* otherwise in neither bucket.                                            *)
(***************************************************************************)
C4_MissingFieldsDefaultSafely ==
    pc = "done" =>
        \A t \in Tracks : \A r \in {t.html, t.plain} : \A o \in Elems(t.input) :
            LET shown == IdsOf(LinesOfKind(r.needs_pp, "brief"))
                counted == r.needs_pp[1].count
                others == {x \in Elems(t.input) : x.noticeId # o.noticeId /\ MeetsMonitor(x)}
            IN  /\ LacksField(o) => o.noticeId \notin IdsOf(LinesOfKind(r.no_pp, "card"))
                /\ ~HasKey(o, "score") => (o.noticeId \notin shown /\ counted = Cardinality(others))
                /\ (~HasKey(o, "requires_past_performance") /\ HasKey(o, "score") /\ o.score >= 6)
                      => (counted = Cardinality(others) + 1 /\ (counted <= 5 => o.noticeId \in shown))
                /\ (~HasKey(o, "requires_past_performance") /\ HasKey(o, "score") /\ o.score < 6)
                      => (o.noticeId \notin shown /\ counted = Cardinality(others))

\* rendered: one opportunity without the flag shown in Monitor, one without
\* the flag and with score 5 in neither bucket, one without a score in neither
C4_Witness ==
    /\ pc = "done"
    /\ \E t \in Tracks : \E a, b, c \in Elems(t.input) :
          /\ ~HasKey(a, "requires_past_performance") /\ HasKey(a, "score") /\ a.score >= 6
          /\ a.noticeId \in IdsOf(LinesOfKind(t.html.needs_pp, "brief"))
          /\ ~HasKey(b, "requires_past_performance") /\ HasKey(b, "score") /\ b.score = 5
          /\ b.noticeId \notin IdsOf(LinesOfKind(t.html.needs_pp, "brief"))
          /\ b.noticeId \notin IdsOf(LinesOfKind(t.html.no_pp, "card"))
          /\ ~HasKey(c, "score") /\ HasKey(c, "requires_past_performance") /\ ~c.requires_past_performance
          /\ t.html.no_pp[1].count = 0 /\ t.html.needs_pp[1].count = 1

(***************************************************************************)
(* C5: the category groups of the HTML Qualified section are the           *)
(* categories present, each once; those of the track's configured order    *)
(* come first, in that order; the others follow in the order of their      *)
(* first appearance in the score-sorted Qualified list (the plain cards);  *)
(* every Qualified opportunity has exactly one card, in the group of its   *)
(* category, or of the track's default category when it has none.          *)
(***************************************************************************)
\* the category header above line i
GroupAt(lines, i) == lines[CHOOSE h \in 1..i : lines[h].kind = "cat-hdr" /\ \A k \in (h + 1)..i : lines[k].kind # "cat-hdr"].cat

\* the category an input opportunity is to be shown under
ShownCategory(o, default) == IF HasKey(o, "category") THEN o.category ELSE default

\* position, in the plain cards, of the first opportunity of a category
FirstSeenAt(t, cat) ==
    LET cards == LinesOfKind(t.plain.no_pp, "card")
    IN  CHOOSE i \in 1..Len(cards) :
           /\ ShownCategory(InputById(t.input, cards[i].id), t.default) = cat
           /\ \A k \in 1..(i - 1) : ShownCategory(InputById(t.input, cards[k].id), t.default) # cat

C5_CategoryGroupOrder ==
    pc = "done" =>
        \A t \in Tracks :
            LET lines == t.html.no_pp
                hdrs == LinesOfKind(lines, "cat-hdr")
                present == {ShownCategory(o, t.default) : o \in {x \in Elems(t.input) : MeetsQualified(x)}}
            IN  /\ {hdrs[i].cat : i \in 1..Len(hdrs)} = present
                /\ Len(hdrs) = Cardinality(present)
                /\ \A i, j \in 1..Len(hdrs) : i < j =>
                      LET a == hdrs[i].cat
                          b == hdrs[j].cat
                      IN  /\ InSeq(a, t.order) /\ InSeq(b, t.order) => IndexOf(t.order, a) < IndexOf(t.order, b)
                          /\ ~InSeq(a, t.order) => ~InSeq(b, t.order)
                          /\ ~InSeq(a, t.order) /\ ~InSeq(b, t.order) => FirstSeenAt(t, a) < FirstSeenAt(t, b)
                /\ \A id \in QualifiedIdsOf(t.input) :
                      /\ Cardinality({i \in 1..Len(lines) : lines[i].kind = "card" /\ lines[i].id = id}) = 1
                      /\ \A i \in 1..Len(lines) : (lines[i].kind = "card" /\ lines[i].id = id)
                            => GroupAt(lines, i) = ShownCategory(InputById(t.input, id), t.default)

\* rendered: three groups; the first is the track's default category, shown
\* for an opportunity without a category that came after an unlisted one in
\* the Qualified list; the other two are unlisted
C5_Witness ==
    /\ pc = "done"
    /\ \E t \in Tracks :
          LET hdrs == LinesOfKind(t.html.no_pp, "cat-hdr")
          IN  /\ Len(hdrs) = 3
              /\ hdrs[1].cat = t.default /\ InSeq(hdrs[1].cat, t.order)
              /\ ~InSeq(hdrs[2].cat, t.order) /\ ~InSeq(hdrs[3].cat, t.order)
              /\ FirstSeenAt(t, hdrs[1].cat) > FirstSeenAt(t, hdrs[2].cat)
              /\ \E o \in Elems(t.input) : ~HasKey(o, "category") /\ MeetsQualified(o)

(***************************************************************************)
(* dme_analyzer.py: the keyword tables                                     *)
(* Each table is the dict in insertion order: <<category, keywords>>.      *)
(***************************************************************************)

_CATEGORY_KEYWORDS ==
    <<<<"Wheelchairs - Power", <<
        <<"p", "o", "w", "e", "r", " ", "w", "h", "e", "e", "l", "c", "h", "a", "i", "r">>,
        <<"e", "l", "e", "c", "t", "r", "i", "c", " ", "w", "h", "e", "e", "l", "c", "h", "a", "i", "r">>,
        <<"m", "o", "t", "o", "r", "i", "z", "e", "d", " ", "w", "h", "e", "e", "l", "c", "h", "a", "i", "r">>,
        <<"j", "a", "z", "z", "y">>,
        <<"q", "u", "a", "n", "t", "u", "m">>,
        <<"p", "e", "r", "m", "o", "b", "i", "l">>,
        <<"p", "o", "w", "e", "r", " ", "c", "h", "a", "i", "r">>,
        <<"p", "o", "w", "e", "r", "c", "h", "a", "i", "r">>
    >>>>,
      <<"Wheelchairs - Manual", <<
        <<"m", "a", "n", "u", "a", "l", " ", "w", "h", "e", "e", "l", "c", "h", "a", "i", "r">>,
        <<"t", "r", "a", "n", "s", "p", "o", "r", "t", " ", "c", "h", "a", "i", "r">>,
        <<"s", "t", "a", "n", "d", "a", "r", "d", " ", "w", "h", "e", "e", "l", "c", "h", "a", "i", "r">>,
        <<"l", "i", "g", "h", "t", "w", "e", "i", "g", "h", "t", " ", "w", "h", "e", "e", "l", "c", "h", "a", "i", "r">>,
        <<"f", "o", "l", "d", "i", "n", "g", " ", "w", "h", "e", "e", "l", "c", "h", "a", "i", "r">>
    >>>>,
      <<"Mobility Scooters", <<
        <<"m", "o", "b", "i", "l", "i", "t", "y", " ", "s", "c", "o", "o", "t", "e", "r">>,
        <<"g", "o", "-", "g", "o">>,
        <<"t", "r", "a", "v", "e", "l", " ", "s", "c", "o", "o", "t", "e", "r">>,
        <<"p", "o", "w", "e", "r", " ", "s", "c", "o", "o", "t", "e", "r">>,
        <<"e", "l", "e", "c", "t", "r", "i", "c", " ", "s", "c", "o", "o", "t", "e", "r">>,
        <<"s", "c", "o", "o", "t", "e", "r">>
    >>>>,
      <<"Hospital Beds", <<
        <<"h", "o", "s", "p", "i", "t", "a", "l", " ", "b", "e", "d">>,
        <<"m", "e", "d", "i", "c", "a", "l", " ", "b", "e", "d">>,
        <<"a", "d", "j", "u", "s", "t", "a", "b", "l", "e", " ", "b", "e", "d">>,
        <<"b", "a", "r", "i", "a", "t", "r", "i", "c", " ", "b", "e", "d">>,
        <<"p", "a", "t", "i", "e", "n", "t", " ", "b", "e", "d">>,
        <<"e", "x", "a", "m", " ", "t", "a", "b", "l", "e">>,
        <<"e", "l", "e", "c", "t", "r", "i", "c", " ", "b", "e", "d">>,
        <<"s", "e", "m", "i", "-", "e", "l", "e", "c", "t", "r", "i", "c", " ", "b", "e", "d">>
    >>>>,
      <<"Patient Lifts", <<
        <<"p", "a", "t", "i", "e", "n", "t", " ", "l", "i", "f", "t">>,
        <<"h", "o", "y", "e", "r">>,
        <<"c", "e", "i", "l", "i", "n", "g", " ", "l", "i", "f", "t">>,
        <<"t", "r", "a", "n", "s", "f", "e", "r", " ", "l", "i", "f", "t">>,
        <<"l", "i", "f", "t", "i", "n", "g", " ", "e", "q", "u", "i", "p", "m", "e", "n", "t">>,
        <<"p", "a", "t", "i", "e", "n", "t", " ", "t", "r", "a", "n", "s", "f", "e", "r">>,
        <<"s", "i", "t", "-", "t", "o", "-", "s", "t", "a", "n", "d">>,
        <<"f", "l", "o", "o", "r", " ", "l", "i", "f", "t">>
    >>>>,
      <<"Walkers and Mobility Aids", <<
        <<"w", "a", "l", "k", "e", "r">>,
        <<"r", "o", "l", "l", "a", "t", "o", "r">>,
        <<"w", "a", "l", "k", "i", "n", "g", " ", "a", "i", "d">>,
        <<"g", "a", "i", "t", " ", "t", "r", "a", "i", "n", "e", "r">>,
        <<"f", "o", "r", "e", "a", "r", "m", " ", "c", "r", "u", "t", "c", "h">>,
        <<"c", "r", "u", "t", "c", "h">>,
        <<" ", "c", "a", "n", "e">>
    >>>>,
      <<"Bathroom Safety", <<
        <<"g", "r", "a", "b", " ", "b", "a", "r">>,
        <<"s", "h", "o", "w", "e", "r", " ", "c", "h", "a", "i", "r">>,
        <<"s", "h", "o", "w", "e", "r", " ", "b", "e", "n", "c", "h">>,
        <<"t", "o", "i", "l", "e", "t", " ", "s", "a", "f", "e", "t", "y">>,
        <<"r", "a", "i", "s", "e", "d", " ", "t", "o", "i", "l", "e", "t", " ", "s", "e", "a", "t">>,
        <<"c", "o", "m", "m", "o", "d", "e">>,
        <<"b", "a", "t", "h", " ", "s", "e", "a", "t">>,
        <<"b", "a", "t", "h", " ", "s", "a", "f", "e", "t", "y">>,
        <<"t", "u", "b", " ", "t", "r", "a", "n", "s", "f", "e", "r">>,
        <<"b", "a", "t", "h", "r", "o", "o", "m", " ", "s", "a", "f", "e", "t", "y">>
    >>>>>>

_CONSULTING_CATEGORY_KEYWORDS ==
    <<<<"Process Improvement", <<
        <<"p", "r", "o", "c", "e", "s", "s", " ", "i", "m", "p", "r", "o", "v", "e", "m", "e", "n", "t">>,
        <<"p", "r", "o", "c", "e", "s", "s", " ", "o", "p", "t", "i", "m", "i", "z", "a", "t", "i", "o", "n">>,
        <<"w", "o", "r", "k", "f", "l", "o", "w", " ", "i", "m", "p", "r", "o", "v", "e", "m", "e", "n", "t">>,
        <<"l", "e", "a", "n">>,
        <<"s", "i", "x", " ", "s", "i", "g", "m", "a">>,
        <<"c", "o", "n", "t", "i", "n", "u", "o", "u", "s", " ", "i", "m", "p", "r", "o", "v", "e", "m", "e", "n", "t">>,
        <<"k", "a", "i", "z", "e", "n">>,
        <<"o", "p", "e", "r", "a", "t", "i", "o", "n", "a", "l", " ", "e", "x", "c", "e", "l", "l", "e", "n", "c", "e">>,
        <<"e", "f", "f", "i", "c", "i", "e", "n", "c", "y", " ", "i", "m", "p", "r", "o", "v", "e", "m", "e", "n", "t">>,
        <<"b", "u", "s", "i", "n", "e", "s", "s", " ", "p", "r", "o", "c", "e", "s", "s">>
    >>>>,
      <<"Agile & Project Management", <<
        <<"a", "g", "i", "l", "e">>,
        <<"s", "c", "r", "u", "m">>,
        <<"a", "g", "i", "l", "e", " ", "t", "r", "a", "n", "s", "f", "o", "r", "m", "a", "t", "i", "o", "n">>,
        <<"a", "g", "i", "l", "e", " ", "c", "o", "a", "c", "h", "i", "n", "g">>,
        <<"p", "r", "o", "j", "e", "c", "t", " ", "m", "a", "n", "a", "g", "e", "m", "e", "n", "t">>,
        <<"p", "r", "o", "g", "r", "a", "m", " ", "m", "a", "n", "a", "g", "e", "m", "e", "n", "t">>,
        <<"p", "m", "o">>,
        <<"c", "h", "a", "n", "g", "e", " ", "m", "a", "n", "a", "g", "e", "m", "e", "n", "t">>,
        <<"o", "r", "g", "a", "n", "i", "z", "a", "t", "i", "o", "n", "a", "l", " ", "c", "h", "a", "n", "g", "e">>,
        <<"s", "p", "r", "i", "n", "t">>
    >>>>,
      <<"Automation & Digital", <<
        <<"a", "u", "t", "o", "m", "a", "t", "i", "o", "n">>,
        <<"p", "r", "o", "c", "e", "s", "s", " ", "a", "u", "t", "o", "m", "a", "t", "i", "o", "n">>,
        <<"w", "o", "r", "k", "f", "l", "o", "w", " ", "a", "u", "t", "o", "m", "a", "t", "i", "o", "n">>,
        <<"l", "o", "w", "-", "c", "o", "d", "e">>,
        <<"n", "o", "-", "c", "o", "d", "e">>,
        <<"d", "i", "g", "i", "t", "a", "l", " ", "t", "r", "a", "n", "s", "f", "o", "r", "m", "a", "t", "i", "o", "n">>,
        <<"r", "p", "a">>,
        <<"r", "o", "b", "o", "t", "i", "c", " ", "p", "r", "o", "c", "e", "s", "s", " ", "a", "u", "t", "o", "m", "a", "t", "i", "o", "n">>,
        <<"s", "y", "s", "t", "e", "m", " ", "i", "n", "t", "e", "g", "r", "a", "t", "i", "o", "n">>
    >>>>,
      <<"Training & Development", <<
        <<"t", "r", "a", "i", "n", "i", "n", "g">>,
        <<"c", "o", "a", "c", "h", "i", "n", "g">>,
        <<"f", "a", "c", "i", "l", "i", "t", "a", "t", "i", "o", "n">>,
        <<"w", "o", "r", "k", "s", "h", "o", "p">>,
        <<"a", "g", "i", "l", "e", " ", "t", "r", "a", "i", "n", "i", "n", "g">>,
        <<"s", "c", "r", "u", "m", " ", "t", "r", "a", "i", "n", "i", "n", "g">>,
        <<"l", "e", "a", "d", "e", "r", "s", "h", "i", "p", " ", "d", "e", "v", "e", "l", "o", "p", "m", "e", "n", "t">>,
        <<"o", "r", "g", "a", "n", "i", "z", "a", "t", "i", "o", "n", "a", "l", " ", "d", "e", "v", "e", "l", "o", "p", "m", "e", "n", "t">>,
        <<"c", "a", "p", "a", "b", "i", "l", "i", "t", "y", " ", "d", "e", "v", "e", "l", "o", "p", "m", "e", "n", "t">>
    >>>>,
      <<"Management Consulting", <<
        <<"s", "t", "r", "a", "t", "e", "g", "i", "c", " ", "p", "l", "a", "n", "n", "i", "n", "g">>,
        <<"m", "a", "n", "a", "g", "e", "m", "e", "n", "t", " ", "c", "o", "n", "s", "u", "l", "t", "i", "n", "g">>,
        <<"b", "u", "s", "i", "n", "e", "s", "s", " ", "c", "o", "n", "s", "u", "l", "t", "i", "n", "g">>,
        <<"p", "e", "r", "f", "o", "r", "m", "a", "n", "c", "e", " ", "i", "m", "p", "r", "o", "v", "e", "m", "e", "n", "t">>,
        <<"a", "d", "v", "i", "s", "o", "r", "y">>,
        <<"a", "s", "s", "e", "s", "s", "m", "e", "n", "t">>,
        <<"r", "e", "c", "o", "m", "m", "e", "n", "d", "a", "t", "i", "o", "n">>,
        <<"s", "t", "r", "a", "t", "e", "g", "i", "c">>,
        <<"c", "o", "n", "s", "u", "l", "t", "i", "n", "g", " ", "s", "e", "r", "v", "i", "c", "e", "s">>
    >>>>>>


(***************************************************************************)
(* dme_analyzer.py: str.lower, str.strip and the regular expression        *)
(*     r"\b" + re.escape(kw.strip()) + r"\b"                               *)
(***************************************************************************)

LowerLetters == <<"a", "b", "c", "d", "e", "f", "g", "h", "i", "j", "k", "l", "m", "n", "o", "p", "q", "r", "s", "t", "u", "v", "w", "x", "y", "z">>
UpperLetters == <<"A", "B", "C", "D", "E", "F", "G", "H", "I", "J", "K", "L", "M", "N", "O", "P", "Q", "R", "S", "T", "U", "V", "W", "X", "Y", "Z">>
Digits == {"0", "1", "2", "3", "4", "5", "6", "7", "8", "9"}

\* the lower-case letter of each upper-case letter
LowerOf == [c \in {UpperLetters[i] : i \in 1..26} |-> LowerLetters[CHOOSE i \in 1..26 : UpperLetters[i] = c]]

\* str.lower on one character
LowerChar(c) == IF c \in DOMAIN LowerOf THEN LowerOf[c] ELSE c

\* str.lower
Lower(text) == [i \in 1..Len(text) |-> LowerChar(text[i])]

\* \w: a letter, a digit or the underscore
WordChars == {LowerLetters[i] : i \in 1..26} \cup {UpperLetters[i] : i \in 1..26} \cup Digits \cup {"_"}
IsWordChar(c) == c \in WordChars

\* str.strip: leading and trailing blanks removed
RECURSIVE Strip(_)
Strip(kw) ==
    IF kw = <<>> THEN <<>>
    ELSE IF Head(kw) = " " THEN Strip(Tail(kw))
    ELSE IF kw[Len(kw)] = " " THEN Strip(SubSeq(kw, 1, Len(kw) - 1))
    ELSE kw

\* A pattern without the two \b anchors: the keyword as a plain substring.
KeywordPatternUnanchored(kw) == LET word == Strip(kw) IN [i \in 1..Len(word) |-> <<"lit", word[i]>>]

\* the compiled pattern: a sequence of tokens, <<"b">> for \b and <<"lit", c>>
\* for the (escaped) character c
KeywordPattern(kw) ==
    LET word == Strip(kw)
    IN  <<<<"b">>>> \o [i \in 1..Len(word) |-> <<"lit", word[i]>>] \o <<<<"b">>>>

\* \b at offset pos (pos characters precede it): exactly one of the characters
\* around the offset is a word character; outside the text counts as non-word
AtWordBoundary(text, pos) ==
    LET before == pos >= 1 /\ IsWordChar(text[pos])
        after == pos < Len(text) /\ IsWordChar(text[pos + 1])
    IN  before # after

\* whether the tokens from index k on match the text from offset pos on
RECURSIVE MatchFrom(_, _, _, _)
MatchFrom(pattern, k, text, pos) ==
    IF k > Len(pattern) THEN TRUE
    ELSE IF pattern[k][1] = "b"
         THEN AtWordBoundary(text, pos) /\ MatchFrom(pattern, k + 1, text, pos)
         ELSE pos < Len(text) /\ text[pos + 1] = pattern[k][2] /\ MatchFrom(pattern, k + 1, text, pos + 1)

\* re.search(pattern, text): a match at some offset
ReSearch(pattern, text) == \E pos \in 0..Len(text) : MatchFrom(pattern, 1, text, pos)

(***************************************************************************)
(* dme_analyzer.py: _scan, _detect_category, _detect_consulting_category   *)
(***************************************************************************)

\* the patterns of a table, <<category, patterns>> in table order (the re
\* module compiles each pattern once and caches it)
Compiled(table) == [c \in 1..Len(table) |-> <<table[c][1], [k \in 1..Len(table[c][2]) |-> KeywordPattern(table[c][2][k])]>>]
DmePatterns == Compiled(_CATEGORY_KEYWORDS)
ConsultingPatterns == Compiled(_CONSULTING_CATEGORY_KEYWORDS)

\* "for kw in keywords: if re.search(...): found.append(category); break"
AnyKeywordMatches(patterns, text) == \E i \in 1..Len(patterns) : ReSearch(patterns[i], text)

\* the loop over table.items(): the categories with a matching keyword, in
\* table order
RECURSIVE Found(_, _)
Found(table, text) ==
    IF table = <<>> THEN <<>>
    ELSE (IF AnyKeywordMatches(Head(table)[2], text) THEN <<Head(table)[1]>> ELSE <<>>) \o Found(Tail(table), text)

\* mutant: the DME scan keeps every category found
ScanDmeKeepsManual(text) == Found(DmePatterns, text)

\* _detect_category._scan: Power wheelchair always beats manual when both present
ScanDme(text) ==
    LET found == Found(DmePatterns, text)
    IN  IF InSeq("Wheelchairs - Manual", found) /\ InSeq("Wheelchairs - Power", found)
        THEN SelectSeq(found, LAMBDA c : c # "Wheelchairs - Manual")
        ELSE found

\* _detect_consulting_category._scan
ScanConsulting(text) == Found(ConsultingPatterns, text)

\* the scan of one vocabulary
Scan(is_dme, text) == IF is_dme THEN ScanDme(text) ELSE ScanConsulting(text)

\* A classifier that always scans the combined text.
MatchedCombinedOnly(is_dme, t, d) == Scan(is_dme, Lower(t) \o <<" ">> \o Lower(d))

\* A classifier that never looks at the description.
MatchedTitleOnly(is_dme, t, d) == Scan(is_dme, Lower(t))

\* matched = _scan(title_lower); if not matched: matched = _scan(title_lower + " " + description.lower())
Matched(is_dme, t, d) ==
    LET title_lower == Lower(t)
        m == Scan(is_dme, title_lower)
    IN  IF m = <<>> THEN Scan(is_dme, title_lower \o <<" ">> \o Lower(d)) ELSE m

\* A decision that needs four categories for the catch-all.
DecideAtFour(m, catch_all, default) == IF Len(m) >= 4 THEN catch_all ELSE IF m # <<>> THEN m[1] ELSE default

\* A decision that returns the last category matched.
DecideLast(m, catch_all, default) == IF Len(m) >= 3 THEN catch_all ELSE IF m # <<>> THEN m[Len(m)] ELSE default

\* if len(matched) >= 3: return catch-all; if matched: return matched[0]; return default
Decide(m, catch_all, default) ==
    IF Len(m) >= 3 THEN catch_all
    ELSE IF m # <<>> THEN m[1]
    ELSE default

\* DMEAnalyzer._detect_category: the local list `matched` and the label returned
_detect_category(t, d) ==
    LET m == Matched(TRUE, t, d)
    IN  [matched |-> m, category |-> Decide(m, "Mixed DME", "Other Medical Equipment")]

\* DMEAnalyzer._detect_consulting_category: `matched` and the label returned
_detect_consulting_category(t, d) ==
    LET m == Matched(FALSE, t, d)
    IN  [matched |-> m, category |-> Decide(m, "Management Consulting", "Other Consulting")]

(***************************************************************************)
(* Inputs of the classifier: a title and a description, each a few phrases *)
(* joined by single blanks.  The phrases are keywords of different         *)
(* categories, keywords inside longer words, and capitalised keywords.     *)
(***************************************************************************)

MaxPhrases == 3

DmeTitleWords ==
    {<<"p", "o", "w", "e", "r", " ", "w", "h", "e", "e", "l", "c", "h", "a", "i", "r">>,
     <<"m", "a", "n", "u", "a", "l", " ", "w", "h", "e", "e", "l", "c", "h", "a", "i", "r">>,
     <<"s", "c", "o", "o", "t", "e", "r">>,
     <<"c", "a", "n", "e", "m", "a", "r", "k">>,
     <<"C", "a", "n", "e">>}

DmeDescriptionWords ==
    {<<"p", "o", "w", "e", "r", " ", "w", "h", "e", "e", "l", "c", "h", "a", "i", "r">>,
     <<"m", "a", "n", "u", "a", "l", " ", "w", "h", "e", "e", "l", "c", "h", "a", "i", "r">>,
     <<"w", "a", "l", "k", "e", "r">>,
     <<"H", "o", "s", "p", "i", "t", "a", "l", " ", "B", "e", "d", " ", "a", "n", "d", " ", "c", "o", "m", "m", "o", "d", "e">>,
     <<"3", "c", "a", "n", "e">>}

ConsultingTitleWords ==
    {<<"l", "e", "a", "n">>,
     <<"a", "g", "i", "l", "e">>,
     <<"T", "r", "a", "i", "n", "i", "n", "g">>,
     <<"s", "t", "r", "a", "t", "e", "g", "i", "c">>,
     <<"l", "e", "a", "n", "i", "n", "g">>}

ConsultingDescriptionWords ==
    {<<"a", "u", "t", "o", "m", "a", "t", "i", "o", "n">>,
     <<"s", "c", "r", "u", "m", " ", "w", "o", "r", "k", "s", "h", "o", "p">>,
     <<"k", "a", "i", "z", "e", "n">>,
     <<"a", "d", "v", "i", "s", "o", "r", "y">>,
     <<"2", "p", "m", "o">>}

RECURSIVE JoinWords(_)
JoinWords(words) ==
    IF words = <<>> THEN <<>>
    ELSE IF Len(words) = 1 THEN words[1]
    ELSE words[1] \o <<" ">> \o JoinWords(Tail(words))

\* the texts of exactly n words
TextsOf(words, n) == {JoinWords(w) : w \in [1..n -> words]}

InitClassifier ==
    /\ \E v \in {"dme", "consulting"} : \E a \in 0..MaxPhrases : \E b \in 0..(MaxPhrases - a) :
          /\ vocab = v
          /\ title \in TextsOf(IF v = "dme" THEN DmeTitleWords ELSE ConsultingTitleWords, a)
          /\ description \in TextsOf(IF v = "dme" THEN DmeDescriptionWords ELSE ConsultingDescriptionWords, b)
    /\ matched = <<>>
    /\ category = <<>>
    /\ pc = "start"
    /\ EmailIdle
    /\ CsvIdle
    /\ DeadlineIdle /\ CardIdle
    /\ RunIdle

\* category = self._detect_category(title, description)
DetectCategory ==
    /\ pc = "start"
    /\ vocab = "dme"
    /\ LET r == _detect_category(title, description)
       IN  matched' = r.matched /\ category' = r.category
    /\ pc' = "done"
    /\ UNCHANGED <<vocab, title, description, emailVars, csvVars, deadlineVars, cardVars, runVars>>

\* category = self._detect_consulting_category(title, description)
DetectConsultingCategory ==
    /\ pc = "start"
    /\ vocab = "consulting"
    /\ LET r == _detect_consulting_category(title, description)
       IN  matched' = r.matched /\ category' = r.category
    /\ pc' = "done"
    /\ UNCHANGED <<vocab, title, description, emailVars, csvVars, deadlineVars, cardVars, runVars>>

NextClassifier == DetectCategory \/ DetectConsultingCategory

SpecClassifier == InitClassifier /\ [][NextClassifier]_vars

(***************************************************************************)
(* Reading a classification: what the claims call a whole-word match,      *)
(* stated on the text itself                                               *)
(***************************************************************************)

\* the keyword without the blanks stored around it
Trimmed(kw) ==
    LET solid == {i \in 1..Len(kw) : kw[i] # " "}
    IN  IF solid = {} THEN <<>>
        ELSE SubSeq(kw, CHOOSE i \in solid : \A j \in solid : i <= j, CHOOSE i \in solid : \A j \in solid : i >= j)

\* word occurs in text with no letter, digit or underscore directly before or after
OccursAsWholeWord(text, word) ==
    \E i \in 1..(Len(text) - Len(word) + 1) :
        /\ text[i] = word[1]
        /\ SubSeq(text, i, i + Len(word) - 1) = word
        /\ (i = 1 \/ text[i - 1] \notin WordChars)
        /\ (i + Len(word) - 1 = Len(text) \/ text[i + Len(word)] \notin WordChars)

\* word occurs in text, as a word or inside a longer one
OccursAnywhere(text, word) == \E i \in 1..(Len(text) - Len(word) + 1) : SubSeq(text, i, i + Len(word) - 1) = word

\* the keywords of each table with the surrounding blanks removed
TrimmedTable(table) == [c \in 1..Len(table) |-> <<table[c][1], [k \in 1..Len(table[c][2]) |-> Trimmed(table[c][2][k])]>>]
DmeWordTable == TrimmedTable(_CATEGORY_KEYWORDS)
ConsultingWordTable == TrimmedTable(_CONSULTING_CATEGORY_KEYWORDS)
WordTable == IF vocab = "dme" THEN DmeWordTable ELSE ConsultingWordTable

\* position of a category in the keyword table
TableIndex(cat) == CHOOSE c \in 1..Len(WordTable) : WordTable[c][1] = cat
TableCategories == {WordTable[c][1] : c \in 1..Len(WordTable)}

\* the categories with a keyword that is a whole word of the text, case ignored
CategoriesIn(text) ==
    LET lower == Lower(text)
    IN  {WordTable[c][1] : c \in {x \in 1..Len(WordTable) : \E k \in 1..Len(WordTable[x][2]) : OccursAsWholeWord(lower, WordTable[x][2][k])}}

CombinedText == title \o <<" ">> \o description

\* the categories of the scanned text: of the title when it matches anything,
\* otherwise of title + " " + description
ScannedCategories == LET t == CategoriesIn(title) IN IF t # {} THEN t ELSE CategoriesIn(CombinedText)

\* the DME rule: Manual is not counted when Power matched too
Counted(cats) ==
    IF vocab = "dme" /\ {"Wheelchairs - Power", "Wheelchairs - Manual"} \subseteq cats
    THEN cats \ {"Wheelchairs - Manual"}
    ELSE cats

CatchAll == IF vocab = "dme" THEN "Mixed DME" ELSE "Management Consulting"
DefaultCategory == IF vocab = "dme" THEN "Other Medical Equipment" ELSE "Other Consulting"

(***************************************************************************)
(* C6: when the title contains a whole-word keyword of exactly one         *)
(* category, the label returned is that category, whatever the             *)
(* description contains.                                                   *)
(***************************************************************************)
C6_TitleSingleCategoryWins ==
    (pc = "done" /\ vocab # "none") =>
        LET t == CategoriesIn(title)
        IN  Cardinality(t) = 1 => category \in t

\* classified: a title of one category with a description that matches three
\* or more other categories
C6_Witness ==
    /\ pc = "done" /\ vocab = "dme"
    /\ Cardinality(CategoriesIn(title)) = 1
    /\ Cardinality(CategoriesIn(description) \ CategoriesIn(title)) >= 3
    /\ category \in CategoriesIn(title)

(***************************************************************************)
(* C7 as stated: when keywords of 3 or more distinct categories match in   *)
(* the scanned text, the label returned is the vocabulary's catch-all.     *)
(***************************************************************************)
C7_ThreeMatchedCategoriesGiveCatchAll ==
    (pc = "done" /\ vocab # "none") =>
        (Cardinality(ScannedCategories) >= 3 => category = CatchAll)

(***************************************************************************)
(* C7 amended: when keywords of 3 or more distinct categories match in the *)
(* scanned text, not counting 'Wheelchairs - Manual' in the DME vocabulary *)
(* when 'Wheelchairs - Power' matches too, the label returned is the       *)
(* vocabulary's catch-all, which for DME is no category of the table.      *)
(***************************************************************************)
C7_ThreeCountedCategoriesGiveCatchAll ==
    (pc = "done" /\ vocab # "none") =>
        (Cardinality(Counted(ScannedCategories)) >= 3 =>
            /\ category = CatchAll
            /\ vocab = "dme" => category \notin TableCategories)

\* classified as Mixed DME: a text with three counted categories
C7_Witness ==
    /\ pc = "done" /\ vocab = "dme"
    /\ Cardinality(Counted(ScannedCategories)) = 3
    /\ category = "Mixed DME"

(***************************************************************************)
(* C8: when keywords of exactly 2 categories match in the scanned text,    *)
(* the label returned is the one of the two that is first in the keyword   *)
(* table, wherever the keywords stand in the text.                         *)
(***************************************************************************)
C8_TwoCategoriesTableOrder ==
    (pc = "done" /\ vocab # "none") =>
        LET s == ScannedCategories
        IN  Cardinality(s) = 2 => (category \in s /\ \A c \in s : TableIndex(category) <= TableIndex(c))

\* classified: a title whose first phrase is of the later category and whose
\* second phrase is of the earlier one
C8_Witness ==
    /\ pc = "done" /\ vocab = "dme"
    /\ \E w1, w2 \in DmeTitleWords :
          /\ title = w1 \o <<" ">> \o w2
          /\ CategoriesIn(w1) = {"Mobility Scooters"}
          /\ CategoriesIn(w2) = {"Wheelchairs - Power"}
    /\ category = "Wheelchairs - Power"

(***************************************************************************)
(* C9: a category is matched only through a keyword that stands in the     *)
(* scanned text as a whole word: a keyword that occurs only inside longer  *)
(* words (a letter or digit directly before or after it) contributes       *)
(* nothing, also the keyword " cane" that is stored with a leading blank.  *)
(***************************************************************************)
C9_WholeWordOnly ==
    (pc = "done" /\ vocab # "none") =>
        /\ \A i \in 1..Len(matched) : matched[i] \in ScannedCategories
        /\ category \in ScannedCategories \cup {CatchAll, DefaultCategory}

\* classified: "cane" occurs in the title and in the description, each time
\* inside a longer word, and Walkers and Mobility Aids is not matched
C9_Witness ==
    /\ pc = "done" /\ vocab = "dme"
    /\ \E k \in 1..Len(_CATEGORY_KEYWORDS[6][2]) : _CATEGORY_KEYWORDS[6][2][k] = <<" ", "c", "a", "n", "e">>
    /\ OccursAnywhere(Lower(title), <<"c", "a", "n", "e">>)
    /\ OccursAnywhere(Lower(description), <<"c", "a", "n", "e">>)
    /\ ~OccursAsWholeWord(Lower(CombinedText), <<"c", "a", "n", "e">>)
    /\ ~InSeq("Walkers and Mobility Aids", matched)
    /\ category = "Other Medical Equipment"

(***************************************************************************)
(* C10: when the title alone matches no category, the categories matched   *)
(* are those of title + " " + description (under the same scan, so with    *)
(* the DME power-over-manual rule), and the vocabulary's default is        *)
(* returned exactly when that text matches nothing, as for an empty title  *)
(* and an empty description.                                               *)
(***************************************************************************)
C10_DescriptionFallback ==
    (pc = "done" /\ vocab # "none") =>
        /\ CategoriesIn(title) = {} =>
              /\ Elems(matched) = Counted(CategoriesIn(CombinedText))
              /\ category = DefaultCategory <=> CategoriesIn(CombinedText) = {}
        /\ (title = <<>> /\ description = <<>>) => category = DefaultCategory

\* classified: a title that matches nothing and a description whose category
\* is returned
C10_Witness ==
    /\ pc = "done" /\ vocab = "consulting"
    /\ title # <<>>
    /\ CategoriesIn(title) = {}
    /\ Cardinality(CategoriesIn(description)) = 1
    /\ category \in CategoriesIn(description)

(***************************************************************************)
(* contract_scout.py: the CSV log.  The file is the sequence of the rows   *)
(* csv.DictWriter has written, each row the sequence of its eleven column  *)
(* values in CSV_COLUMNS order.                                            *)
(***************************************************************************)

CSV_COLUMNS == <<"date_found", "title", "solicitation_id", "naics", "agency", "estimated_value", "deadline", "score", "reasoning", "sam_url", "status">>

\* the dict handed to writer.writerow for result r on UTC date `today`
CsvRowDict(r, today) ==
    [date_found |-> today,
     title |-> Get(r, "title", ""),
     solicitation_id |-> Get(r, "solicitationNumber", ""),
     naics |-> Get(r, "naicsCode", ""),
     agency |-> Get(r, "agency", ""),
     estimated_value |-> "",
     deadline |-> Get(r, "responseDeadLine", ""),
     score |-> Get(r, "score", ""),
     reasoning |-> Get(r, "reasoning", ""),
     sam_url |-> Get(r, "uiLink", ""),
     status |-> "new"]

\* DictWriter.writerow: the values in fieldnames order
WriteRow(d) == [i \in 1..Len(CSV_COLUMNS) |-> d[CSV_COLUMNS[i]]]

\* DictWriter.writeheader: the field names themselves
WriteHeader == CSV_COLUMNS

\* mutant: the file is opened for writing, not for appending
LogToCsvTruncating(file, results, today) ==
    [exists |-> TRUE,
     lines |-> (IF ~file.exists THEN <<WriteHeader>> ELSE <<>>) \o [i \in 1..Len(results) |-> WriteRow(CsvRowDict(results[i], today))]]

\* log_to_csv(results): the file afterwards
log_to_csv(file, results, today) ==
    LET write_header == ~file.exists
        appended == (IF write_header THEN <<WriteHeader>> ELSE <<>>) \o [i \in 1..Len(results) |-> WriteRow(CsvRowDict(results[i], today))]
    IN  [exists |-> TRUE, lines |-> file.lines \o appended]

MaxCsvResults == 2
MaxCsvCalls == 2

\* merged results as log_to_csv may receive them; any key may be missing
CsvResultPool ==
    {[noticeId |-> "n1", title |-> "Lean training", solicitationNumber |-> "S-1", naicsCode |-> "541611", agency |-> "GSA", responseDeadLine |-> "2026-03-25", uiLink |-> "u1", score |-> 8, reasoning |-> "fits", key_requirements |-> "k"],
     [noticeId |-> "n2", title |-> "date_found"]}

CsvDates == {"2026-03-01", "2026-03-02"}

InitCsv ==
    /\ CsvIdle
    /\ EmailIdle
    /\ ClassifierIdle
    /\ DeadlineIdle /\ CardIdle
    /\ RunIdle
    /\ pc = "start"

\* one call log_to_csv(results), run to completion
LogToCsv ==
    /\ csv_calls < MaxCsvCalls
    /\ \E results \in SeqsUpTo(CsvResultPool, MaxCsvResults) : \E today \in CsvDates :
          /\ csv_file' = log_to_csv(csv_file, results, today)
          /\ csv_results' = results
    /\ csv_calls' = csv_calls + 1
    /\ UNCHANGED <<emailVars, classifierVars, deadlineVars, cardVars, runVars, pc>>

NextCsv == LogToCsv

SpecCsv == InitCsv /\ [][NextCsv]_vars

(***************************************************************************)
(* Reading the CSV file                                                    *)
(***************************************************************************)

HeaderLine == <<"date_found", "title", "solicitation_id", "naics", "agency", "estimated_value", "deadline", "score", "reasoning", "sam_url", "status">>

HeaderPositions(lines) == {i \in 1..Len(lines) : lines[i] = HeaderLine}

DataRowCount(lines) == Cardinality({i \in 1..Len(lines) : lines[i] # HeaderLine})

IsPrefixOf(a, b) == Len(a) <= Len(b) /\ SubSeq(b, 1, Len(a)) = a

\* what one completed call did to the file: M rows added after the old
\* content, the old content kept, the header written only on creation
CsvCallAppends ==
    csv_calls' = csv_calls + 1 =>
        LET M == Len(csv_results')
            old == csv_file.lines
            new == csv_file'.lines
        IN  /\ IsPrefixOf(old, new)
            /\ DataRowCount(new) = DataRowCount(old) + M
            /\ Len(new) = Len(old) + M + (IF csv_file.exists THEN 0 ELSE 1)
            /\ \A i \in (Len(new) - M + 1)..Len(new) : new[i] # HeaderLine
            /\ csv_file'.exists
            /\ HeaderPositions(new) = {1}

\* C11: in a sequence of log_to_csv calls starting from a non-existent
\* file, every call with M results appends exactly M rows after the
\* existing content and leaves the earlier lines unchanged and in place
\* (K data rows become K+M), and the header line occurs exactly once, as
\* the first line, written only by the call that created the file.
C11_CsvAppendOnly == [][CsvCallAppends]_vars

\* a second call has appended two rows to a file that already held rows
C11_Witness ==
    /\ csv_calls = 2
    /\ Len(csv_results) = 2
    /\ Len(csv_file.lines) = 5
    /\ csv_file.lines[1] = HeaderLine

(***************************************************************************)
(* email_templates.py: the deadline helpers.  datetime.strptime is         *)
(* modelled on the characters of the text and of the format string, since  *)
(* the code cuts the format string to the length of the text.              *)
(***************************************************************************)

DigitValue == [c \in Digits |-> CASE c = "0" -> 0 [] c = "1" -> 1 [] c = "2" -> 2 [] c = "3" -> 3 [] c = "4" -> 4 [] c = "5" -> 5 [] c = "6" -> 6 [] c = "7" -> 7 [] c = "8" -> 8 [] c = "9" -> 9]

\* the formats tried, in order
DEADLINE_FORMATS ==
    <<<<"%", "Y", "-", "%", "m", "-", "%", "d", "T", "%", "H", ":", "%", "M", ":", "%", "S">>,
      <<"%", "Y", "-", "%", "m", "-", "%", "d">>,
      <<"%", "m", "/", "%", "d", "/", "%", "Y">>>>

\* the fields strptime starts from
StrptimeDefaults == [Y |-> 1900, m |-> 1, d |-> 1, H |-> 0, M |-> 0, S |-> 0]

\* the two-character alternatives of a directive's pattern match at s[i..i+1]
TwoCharMatch(dir, s, i) ==
    /\ i + 1 <= Len(s)
    /\ \/ /\ s[i] \in Digits
          /\ s[i + 1] \in Digits
          /\ LET v == 10 * DigitValue[s[i]] + DigitValue[s[i + 1]]
             IN  CASE dir = "m" -> v \in 1..12
                   [] dir = "d" -> v \in 1..31
                   [] dir = "H" -> v \in 0..23
                   [] dir = "M" -> v \in 0..59
                   [] dir = "S" -> v \in 0..61
                   [] OTHER -> FALSE
       \/ dir = "d" /\ s[i] = " " /\ s[i + 1] \in (Digits \ {"0"})

TwoCharValue(s, i) == (IF s[i] = " " THEN 0 ELSE 10 * DigitValue[s[i]]) + DigitValue[s[i + 1]]

\* the one-character alternative of a directive's pattern matches at s[i]
OneCharMatch(dir, s, i) ==
    /\ i <= Len(s)
    /\ IF dir \in {"m", "d"} THEN s[i] \in (Digits \ {"0"}) ELSE s[i] \in Digits

\* %Y: exactly four digits
YearMatch(s, i) == i + 3 <= Len(s) /\ \A k \in 0..3 : s[i + k] \in Digits

YearValue(s, i) == 1000 * DigitValue[s[i]] + 100 * DigitValue[s[i + 1]] + 10 * DigitValue[s[i + 2]] + DigitValue[s[i + 3]]

\* match fmt[j..] against s[i..]: <<fields>> on a full match, <<>> when the
\* text does not match or the format ends in a stray %
RECURSIVE StrptimeFrom(_, _, _, _, _)
StrptimeFrom(s, i, fmt, j, acc) ==
    IF j > Len(fmt) THEN (IF i > Len(s) THEN <<acc>> ELSE <<>>)
    ELSE IF fmt[j] = "%" THEN
        IF j = Len(fmt) THEN <<>>
        ELSE LET dir == fmt[j + 1]
             IN  IF dir = "Y" THEN
                     (IF YearMatch(s, i) THEN StrptimeFrom(s, i + 4, fmt, j + 2, [acc EXCEPT !.Y = YearValue(s, i)]) ELSE <<>>)
                 ELSE LET two == IF TwoCharMatch(dir, s, i) THEN StrptimeFrom(s, i + 2, fmt, j + 2, [acc EXCEPT ![dir] = TwoCharValue(s, i)]) ELSE <<>>
                      IN  IF two # <<>> THEN two
                          ELSE IF OneCharMatch(dir, s, i) THEN StrptimeFrom(s, i + 1, fmt, j + 2, [acc EXCEPT ![dir] = DigitValue[s[i]]])
                          ELSE <<>>
    ELSE IF i <= Len(s) /\ LowerChar(s[i]) = LowerChar(fmt[j]) THEN StrptimeFrom(s, i + 1, fmt, j + 1, acc)
    ELSE <<>>

IsLeap(y) == y % 4 = 0 /\ (y % 100 # 0 \/ y % 400 = 0)

DaysInMonth(y, m) == IF m = 2 THEN (IF IsLeap(y) THEN 29 ELSE 28) ELSE IF m \in {4, 6, 9, 11} THEN 30 ELSE 31

\* datetime.strptime(s, fmt): <<datetime>> or <<>> for ValueError
Strptime(s, fmt) ==
    LET r == StrptimeFrom(s, 1, fmt, 1, StrptimeDefaults)
    IN  IF r = <<>> THEN <<>>
        ELSE IF r[1].Y >= 1 /\ r[1].d <= DaysInMonth(r[1].Y, r[1].m) /\ r[1].S <= 59 THEN r
        ELSE <<>>

\* date.toordinal()
DAYS_BEFORE_MONTH == <<0, 31, 59, 90, 120, 151, 181, 212, 243, 273, 304, 334>>

ToOrdinal(y, m, d) ==
    (y - 1) * 365 + ((y - 1) \div 4) - ((y - 1) \div 100) + ((y - 1) \div 400) + DAYS_BEFORE_MONTH[m] + (IF m > 2 /\ IsLeap(y) THEN 1 ELSE 0) + d

\* (dt.date() - today).days
DaysBetween(dt, today) == ToOrdinal(dt.Y, dt.m, dt.d) - ToOrdinal(today.Y, today.m, today.d)

\* the loop over the formats: the first that parses deadline_str[:19] under
\* fmt[:len(deadline_str[:19])], <<>> when every attempt raised ValueError
TryFormats(deadline_str) ==
    LET text == Take(deadline_str, 19)
        tried == [k \in 1..Len(DEADLINE_FORMATS) |-> Strptime(text, Take(DEADLINE_FORMATS[k], Len(text)))]
        ok == {k \in 1..Len(DEADLINE_FORMATS) : tried[k] # <<>>}
    IN  IF ok = {} THEN <<>> ELSE tried[CHOOSE k \in ok : \A k2 \in ok : k <= k2]

\* f"{days} day{'s' if days != 1 else ''}"
DayStr(days) == [days |-> days, unit |-> IF days # 1 THEN "days" ELSE "day"]

MONTH_ABBR == <<"Jan", "Feb", "Mar", "Apr", "May", "Jun", "Jul", "Aug", "Sep", "Oct", "Nov", "Dec">>

\* dt.strftime("%b %d, %Y")
Strftime(dt) == [b |-> MONTH_ABBR[dt.m], d |-> dt.d, Y |-> dt.Y]

\* _days_until(deadline_str): "" is <<>>
_days_until(deadline_str, today) ==
    IF deadline_str = <<>> THEN [kind |-> "empty"]
    ELSE LET dt == TryFormats(deadline_str)
         IN  IF dt # <<>> THEN [kind |-> "days", day_str |-> DayStr(DaysBetween(dt[1], today))]
             ELSE [kind |-> "empty"]

\* _fmt_deadline(deadline_str)
_fmt_deadline(deadline_str, today) ==
    IF deadline_str = <<>> \/ deadline_str = <<"N", "/", "A">> THEN [kind |-> "N/A"]
    ELSE LET dt == TryFormats(deadline_str)
         IN  IF dt # <<>> THEN
                 LET days == DaysBetween(dt[1], today)
                 IN  [kind |-> "days", formatted |-> Strftime(dt[1]), day_str |-> DayStr(days),
                      color |-> IF days < 7 THEN "#dc2626" ELSE IF days < 14 THEN "#d97706" ELSE "#059669"]
             ELSE [kind |-> "raw", text |-> Take(deadline_str, 10)]

MaxDeadlineLen == 20

\* deadline texts as the search service sends them, whole or cut short
DeadlineBases ==
    {<<"2", "0", "2", "6", "-", "0", "3", "-", "2", "5">>,
     <<"2", "0", "2", "6", "-", "0", "3", "-", "2", "5", "T", "1", "7", ":", "0", "0", ":", "0", "0", "-", "0", "4", ":", "0", "0">>,
     <<"0", "3", "/", "2", "5", "/", "2", "0", "2", "6">>,
     <<"3", "/", "5", "/", "2", "0", "2", "6">>,
     <<"2", "0", "2", "6", "-", "0", "2", "-", "3", "0">>,
     <<"2", "0", "2", "4", "-", "0", "2", "-", "2", "9">>,
     <<"2", "0", "2", "6", "-", "0", "3", "-", "0", "2">>,
     <<"2", "0", "2", "6", "-", "3", "-", "5", "t", "1", "2", ":", "3", "0", ":", "0", "5">>,
     <<"1", "2", "/", "3", "1", "/", "2", "0", "2", "5">>,
     <<"N", "/", "A">>,
     <<"2", "0", "2", "6", "-", "0", "3", "-", "2", "5", " ", "1", "7", ":", "0", "0">>}

DeadlineTexts == {Take(b, n) : b \in DeadlineBases, n \in 0..MaxDeadlineLen}

UtcDates == {[Y |-> 2026, m |-> 3, d |-> 1], [Y |-> 2026, m |-> 3, d |-> 25], [Y |-> 2026, m |-> 4, d |-> 2], [Y |-> 2024, m |-> 2, d |-> 28]}

InitDeadline ==
    /\ responseDeadLine \in DeadlineTexts
    /\ utc_today \in UtcDates
    /\ days_until = <<>>
    /\ fmt_deadline = <<>>
    /\ pc = "start"
    /\ EmailIdle
    /\ ClassifierIdle
    /\ CsvIdle
    /\ CardIdle
    /\ RunIdle

\* a card is rendered: both helpers run on the same text on the same day
RenderDeadline ==
    /\ pc = "start"
    /\ days_until' = _days_until(responseDeadLine, utc_today)
    /\ fmt_deadline' = _fmt_deadline(responseDeadLine, utc_today)
    /\ pc' = "done"
    /\ UNCHANGED <<responseDeadLine, utc_today, emailVars, classifierVars, csvVars, cardVars, runVars>>

NextDeadline == RenderDeadline

SpecDeadline == InitDeadline /\ [][NextDeadline]_vars

(***************************************************************************)
(* email_templates.py: the text of one HTML card.  The text is the         *)
(* sequence of the pieces the f-strings put together: the template's own   *)
(* text, a value the code formats itself (a number, a date), and a string  *)
(* of the opportunity with the characters that reach the output.           *)
(***************************************************************************)

Lit(text) == [kind |-> "lit", text |-> text]

Gen(value) == [kind |-> "gen", value |-> value]

\* a string of the opportunity placed between tags ("text") or inside a
\* single-quoted attribute ("attr"): the string and what is written for it
Val(ctx, raw, chars) == [kind |-> "val", ctx |-> ctx, raw |-> raw, chars |-> chars]

\* html.escape(s, quote=True) on one character
EscapeChar(c) ==
    CASE c = "&" -> <<"&", "a", "m", "p", ";">>
      [] c = "<" -> <<"&", "l", "t", ";">>
      [] c = ">" -> <<"&", "g", "t", ";">>
      [] c = "\"" -> <<"&", "q", "u", "o", "t", ";">>
      [] c = "'" -> <<"&", "#", "x", "2", "7", ";">>
      [] OTHER -> <<c>>

\* _h(text)
RECURSIVE _h(_)
_h(text) == IF text = <<>> THEN <<>> ELSE EscapeChar(Head(text)) \o _h(Tail(text))

\* ", ".join(items)
RECURSIVE JoinItems(_)
JoinItems(items) ==
    IF items = <<>> THEN <<>>
    ELSE IF Len(items) = 1 THEN items[1]
    ELSE items[1] \o <<",", " ">> \o JoinItems(Tail(items))

\* the string _fmt_deadline returns, as pieces
FmtDeadlineText(fd) ==
    CASE fd.kind = "N/A" -> <<Lit("N/A")>>
      [] fd.kind = "days" ->
            <<Gen(fd.formatted), Lit(" <span style='color:" \o fd.color \o ";font-weight:bold'>("), Gen(fd.day_str), Lit(")</span>")>>
      [] fd.kind = "raw" -> <<Val("text", fd.text, fd.text)>>

\* the lines of "for h in highlights" / "for r in risks"
MarkedLines(cls, mark, texts) ==
    [i \in 1..(3 * Len(texts)) |->
        CASE i % 3 = 1 -> Lit("<div class='" \o cls \o "'>" \o mark \o " ")
          [] i % 3 = 2 -> Val("text", texts[(i + 1) \div 3], _h(texts[(i + 1) \div 3]))
          [] OTHER -> Lit("</div>")]

\* _html_card(rank, opp, is_dme), with the current UTC date
CardText(rank, opp, is_dme, today) ==
    LET score == Get(opp, "score", 0)
        rec == Get(opp, "bid_recommendation", <<"N", "O", "-", "B", "I", "D">>)
        is_bid == rec = <<"B", "I", "D">>
        card_cls == IF is_bid THEN "bid" ELSE "nobid"
        score_cls == IF is_bid THEN "bid" ELSE "nobid"
        title_ == Get(opp, "title", <<"U", "n", "t", "i", "t", "l", "e", "d">>)
        agency == Get(opp, "agency", <<"U", "n", "k", "n", "o", "w", "n", " ", "A", "g", "e", "n", "c", "y">>)
        sol == Get(opp, "solicitationNumber", <<"N", "/", "A">>)
        url == Get(opp, "uiLink", <<>>)
        deadline == Get(opp, "responseDeadLine", <<>>)
        posted == Get(opp, "postedDate", <<>>)
        profit == Get(opp, "estimated_profit", EmptyDict)
        net_profit == Get(profit, "net_profit", 0)
        revenue == Get(profit, "revenue", 0)
        gross == Get(profit, "gross_profit", 0)
        costs == Get(opp, "estimated_costs", EmptyDict)
        total_cost == Get(costs, "total", 0)
        items == Get(opp, IF is_dme THEN "products_needed" ELSE "services_needed", <<>>)
        items_str == IF items # <<>> THEN JoinItems(Take(items, 3)) ELSE <<>>
        items_label == IF is_dme THEN "Products" ELSE "Services"
        highlights == Take(Get(opp, "opportunity_highlights", <<>>), 3)
        risks == Take(Get(opp, "risks", <<>>), 2)
        reason == Get(opp, "recommendation_reason", <<>>)
        pp_details == Get(opp, "past_performance_details", <<>>)
        deadline_str == FmtDeadlineText(_fmt_deadline(deadline, today))
        margin_label == IF is_dme THEN "35-40%" ELSE "80%"
        posted_shown == IF posted # <<>> THEN Take(posted, 10) ELSE <<"N", "/", "A">>
    IN  <<Lit("<div class='card'>"),
          Lit("<div class='card-hdr " \o card_cls \o "'>"),
          Lit("<div class='score " \o score_cls \o "'>#"), Gen(rank), Lit("</div>"),
          Lit("<span class='score " \o score_cls \o "' style='font-size:18px'>"), Gen(score), Lit("/10</span>"),
          Lit("<span class='rec " \o card_cls \o "'>"), Val("text", rec, _h(rec)), Lit("</span>"),
          Lit("<span class='card-title'>"), Val("text", title_, _h(title_)), Lit("</span>"),
          Lit("</div>"),
          Lit("<div class='card-body'>"),
          Lit("<div class='row'><b>Agency:</b> "), Val("text", agency, _h(agency)), Lit("</div>"),
          Lit("<div class='row'><b>Sol #:</b> "), Val("text", sol, _h(sol)), Lit(" &nbsp;|&nbsp; <b>Posted:</b> "),
          Val("text", posted_shown, _h(posted_shown)), Lit("</div>"),
          Lit("<div class='row'><b>Deadline:</b> ")>>
        \o deadline_str
        \o <<Lit("</div>")>>
        \o (IF items_str # <<>>
            THEN <<Lit("<div class='row'><b>" \o items_label \o ":</b> "), Val("text", items_str, _h(items_str)), Lit("</div>")>>
            ELSE <<>>)
        \o (IF is_dme
            THEN <<Lit("<div class='row'><b>Est. Cost:</b> $"), Gen(Format0f(total_cost)), Lit(" &nbsp;|&nbsp; <b>Gross:</b> $"), Gen(Format0f(gross)),
                   Lit(" &nbsp;|&nbsp; <b>Your net (" \o margin_label \o "):</b> <strong>$"), Gen(Format0f(net_profit)), Lit("</strong></div>")>>
            ELSE <<Lit("<div class='row'><b>Revenue:</b> $"), Gen(Format0f(revenue)), Lit(" &nbsp;|&nbsp; <b>Expenses:</b> $"), Gen(Format0f(total_cost)),
                   Lit(" &nbsp;|&nbsp; <b>Your net (" \o margin_label \o "):</b> <strong>$"), Gen(Format0f(net_profit)), Lit("</strong></div>")>>)
        \o (IF highlights # <<>> \/ risks # <<>>
            THEN <<Lit("<div class='highlights'>")>>
                 \o MarkedLines("hi", "&#x2713;", highlights)
                 \o MarkedLines("ri", "&#x26A0;", risks)
                 \o (IF reason # <<>>
                     THEN <<Lit("<div style='font-size:12px;color:#374151;margin-top:4px'><em>"), Val("text", reason, _h(reason)), Lit("</em></div>")>>
                     ELSE <<>>)
                 \o <<Lit("</div>")>>
            ELSE <<>>)
        \o (IF pp_details # <<>>
            THEN <<Lit("<div class='row' style='font-size:12px;color:#7c3aed'><b>Past perf note:</b> "), Val("text", pp_details, _h(pp_details)), Lit("</div>")>>
            ELSE <<>>)
        \o (IF url # <<>>
            THEN <<Lit("<a href='"), Val("attr", url, _h(url)), Lit("' class='sam-btn' target='_blank'>&#x2192; View on SAM.gov</a>")>>
            ELSE <<>>)
        \o <<Lit("</div></div>")>>

MaxCardRank == 2

\* strings as an opportunity may carry them: plain, with markup characters,
\* dates, and texts longer than the ten characters shown of a date
CardTexts ==
    {<<>>, <<"a">>, <<"<", "b", ">">>, <<"a", "&", "b">>, <<"'", "\"">>, <<"'", ">", "<", "i", ">", "x", "<", "/", "i", ">">>, <<"2", "0", "2", "6", "-", "0", "3", "-", "2", "5">>, <<"N", "/", "A">>, <<"2", "0", "2", "6", "-", "0", "3", "-", "2", "5", "<", "b", ">">>, <<"B", "I", "D">>}

StringFields ==
    {"bid_recommendation", "title", "agency", "solicitationNumber", "uiLink", "postedDate", "responseDeadLine",
     "recommendation_reason", "past_performance_details"}

ListFields == {"products_needed", "services_needed", "opportunity_highlights", "risks"}

\* an opportunity as the analyzer returns it
BaseOpp ==
    [noticeId |-> "n1", score |-> 8, bid_recommendation |-> <<"B", "I", "D">>, title |-> <<"B", "e", "d", "s">>, agency |-> <<"V", "A">>,
     solicitationNumber |-> <<"S", "-", "1">>, uiLink |-> <<"h", "t", "t", "p", ":", "/", "/", "s", "/", "1">>, postedDate |-> <<"2", "0", "2", "6", "-", "0", "3", "-", "0", "1", "T", "0", "9", ":", "0", "0">>, responseDeadLine |-> <<"2", "0", "2", "6", "-", "0", "3", "-", "2", "5">>,
     estimated_profit |-> [net_profit |-> 250000, revenue |-> 400050, gross_profit |-> 300000],
     estimated_costs |-> [total |-> 150000],
     products_needed |-> <<<<"b", "e", "d", "s">>>>, services_needed |-> <<<<"t", "r", "a", "i", "n", "i", "n", "g">>>>,
     opportunity_highlights |-> <<<<"s", "m", "a", "l", "l">>>>, risks |-> <<<<"s", "h", "o", "r", "t">>>>,
     recommendation_reason |-> <<"f", "i", "t">>, past_performance_details |-> <<>>]

WithoutKey(d, key) == [k \in DOMAIN d \ {key} |-> d[k]]

CardOpps ==
    {[BaseOpp EXCEPT ![f] = t] : f \in StringFields, t \in CardTexts}
    \cup {[BaseOpp EXCEPT ![f] = l] : f \in ListFields, l \in {<<>>, <<<<"<", "b", ">">>>>, <<<<"a">>, <<"a", "&", "b">>>>, <<<<"a">>, <<"<", "b", ">">>, <<"'", "\"">>, <<"'", ">", "<", "i", ">", "x", "<", "/", "i", ">">>>>}}
    \cup {WithoutKey(BaseOpp, f) : f \in StringFields \cup ListFields \cup {"score", "estimated_profit", "estimated_costs"}}
    \cup {[BaseOpp EXCEPT !.opportunity_highlights = <<>>, !.risks = <<>>, !.recommendation_reason = t] : t \in CardTexts}

CardDates == {[Y |-> 2026, m |-> 3, d |-> 1], [Y |-> 2026, m |-> 3, d |-> 24]}

InitCard ==
    /\ card_opp \in CardOpps
    /\ card_rank \in 1..MaxCardRank
    /\ card_is_dme \in BOOLEAN
    /\ card_html = <<>>
    /\ utc_today \in CardDates
    /\ responseDeadLine = <<>> /\ days_until = <<>> /\ fmt_deadline = <<>>
    /\ pc = "start"
    /\ EmailIdle
    /\ ClassifierIdle
    /\ CsvIdle
    /\ RunIdle

\* lines.append(_html_card(rank, opp, is_dme)) for one opportunity
RenderCard ==
    /\ pc = "start"
    /\ card_opp # <<>>
    /\ card_html' = CardText(card_rank, card_opp, card_is_dme, utc_today)
    /\ pc' = "done"
    /\ UNCHANGED <<card_opp, card_rank, card_is_dme, emailVars, classifierVars, csvVars, deadlineVars, runVars>>

NextCard == RenderCard

SpecCard == InitCard /\ [][NextCard]_vars

(***************************************************************************)
(* Reading a deadline: the three accepted formats written out, and the     *)
(* day count by Julian day numbers                                         *)
(***************************************************************************)

IsoDateTimeFormat == <<"%", "Y", "-", "%", "m", "-", "%", "d", "T", "%", "H", ":", "%", "M", ":", "%", "S">>
IsoDateFormat == <<"%", "Y", "-", "%", "m", "-", "%", "d">>
UsDateFormat == <<"%", "m", "/", "%", "d", "/", "%", "Y">>

\* the date the text (its first 19 characters) denotes under the first of
\* the three formats that parses it, <<>> when none does
ParsedUnderFormats(text) ==
    LET t == Take(text, 19)
        a == Strptime(t, IsoDateTimeFormat)
        b == Strptime(t, IsoDateFormat)
        c == Strptime(t, UsDateFormat)
    IN  IF a # <<>> THEN a ELSE IF b # <<>> THEN b ELSE c

JulianDay(y, m, d) ==
    LET a == IF m <= 2 THEN 1 ELSE 0
        yy == y + 4800 - a
        mm == m + 12 * a - 3
    IN  d + ((153 * mm + 2) \div 5) + 365 * yy + (yy \div 4) - (yy \div 100) + (yy \div 400) - 32045

\* deadline date minus current UTC date, in days
DeadlineMinusToday(dt, today) == JulianDay(dt.Y, dt.m, dt.d) - JulianDay(today.Y, today.m, today.d)

\* the days value each helper printed, <<>> when it printed none
DaysOf(out) == IF out.kind = "days" THEN <<out.day_str.days>> ELSE <<>>

\* a text that parses yields the date difference, negative values included
ParsedGivesDifference ==
    LET ref == ParsedUnderFormats(responseDeadLine)
    IN  ref # <<>> =>
            /\ DaysOf(days_until) = <<DeadlineMinusToday(ref[1], utc_today)>>
            /\ DaysOf(fmt_deadline) = <<DeadlineMinusToday(ref[1], utc_today)>>

\* a text that parses under no format yields no days value
UnparsedGivesEmpty ==
    ParsedUnderFormats(responseDeadLine) = <<>> => DaysOf(days_until) = <<>> /\ DaysOf(fmt_deadline) = <<>>

\* the two helpers agree whenever the text is one _fmt_deadline formats
HelpersAgree == fmt_deadline.kind # "N/A" => DaysOf(days_until) = DaysOf(fmt_deadline)

\* C12: a deadline text that parses under ISO date-time, ISO date or
\* MM/DD/YYYY (tried in that order) gives days = deadline date - current UTC
\* date, negative values included; a text that parses under none gives an
\* empty days value; _days_until and _fmt_deadline give the same integer.
C12_DeadlineDays ==
    pc = "done" /\ fmt_deadline # <<>> => ParsedGivesDifference /\ UnparsedGivesEmpty /\ HelpersAgree

(***************************************************************************)
(* The two renderings of one report, compared                              *)
(***************************************************************************)

\* the rank and identity of each full card of a section, in printed order
RankedCards(lines) == [i \in 1..Len(LinesOfKind(lines, "card")) |-> <<LinesOfKind(lines, "card")[i].rank, LinesOfKind(lines, "card")[i].id>>]

\* C13: the HTML and the plain rendering present the same opportunities:
\* per track the same set of Qualified opportunities as full cards, the same
\* Monitor entries in the same order, and equal printed counts and
\* net-potential totals for each section.
C13_SameOpportunitiesBothRenderings ==
    pc = "done" =>
        /\ \A t \in Tracks :
              /\ IdsOf(LinesOfKind(t.html.no_pp, "card")) = IdsOf(LinesOfKind(t.plain.no_pp, "card"))
              /\ Len(LinesOfKind(t.html.no_pp, "card")) = Len(LinesOfKind(t.plain.no_pp, "card"))
              /\ LinesOfKind(t.html.needs_pp, "brief") = LinesOfKind(t.plain.needs_pp, "brief")
              /\ LinesOfKind(t.html.needs_pp, "more") = LinesOfKind(t.plain.needs_pp, "more")
              /\ t.html.no_pp[1].count = t.plain.no_pp[1].count
              /\ t.html.no_pp[1].net_potential = t.plain.no_pp[1].net_potential
              /\ t.html.needs_pp[1].count = t.plain.needs_pp[1].count
        /\ html.header.dme_count = plain.head.dme_count
        /\ html.header.con_count = plain.head.con_count
        /\ html.header.dme_bid = plain.head.dme_bid
        /\ html.header.con_bid = plain.head.con_bid
        /\ html.summary.dme_profit = plain.head.dme_profit
        /\ html.summary.con_profit = plain.head.con_profit

\* a report with a Qualified card and a Monitor entry in one track and a
\* Qualified card with a net potential in the other, in both renderings
C13_Witness ==
    /\ pc = "done"
    /\ IdsOf(LinesOfKind(plain.part1.no_pp, "card")) = {1}
    /\ LinesOfKind(plain.part1.needs_pp, "brief") # <<>>
    /\ LinesOfKind(html.part1.needs_pp, "brief") # <<>>
    /\ IdsOf(LinesOfKind(html.part2.no_pp, "card")) = {101}
    /\ plain.part2.no_pp[1].net_potential = 250
    /\ html.summary.con_profit = 250

\* C14: the Qualified opportunities of a track appear in the same sequence,
\* with the same rank number on each, in the HTML and in the plain rendering.
C14_SameSequenceAndRank ==
    pc = "done" => \A t \in Tracks : RankedCards(t.html.no_pp) = RankedCards(t.plain.no_pp)

(***************************************************************************)
(* contract_scout.py: the daily run.  An operation that can raise returns  *)
(* [ok |-> FALSE, error |-> name] or [ok |-> TRUE, value |-> v].  A text   *)
(* received from the scoring engine is a sequence of chunks: a code fence  *)
(* "```", the language tag after it, a newline, prose, or one JSON         *)
(* document (carried as the value it denotes).                             *)
(***************************************************************************)

MIN_SCORE == 7

Raised(name) == [ok |-> FALSE, error |-> name]
Returned(v) == [ok |-> TRUE, value |-> v]

\* mutant: an empty value counts as set
IsSetAllowsEmpty(var) == var \in DOMAIN env

\* bool(os.getenv(var)): the variable is set and its value is not ""
IsSet(var) == var \in DOMAIN env /\ env[var] # ""

\* mutant: the status of the response is never looked at
SearchSamGovIgnoresStatus(resp) ==
    IF resp.error # "none" THEN Raised(resp.error)
    ELSE IF resp.body = <<>> THEN Raised("JSONDecodeError")
    ELSE Returned(Get(resp.body[1], "opportunitiesData", <<>>))

\* config.py: the per-track code lists and their combination
DME_NAICS_CODES == <<"423450", "532283", "446199", "423460">>

CONSULTING_NAICS_CODES == <<"541611", "541618", "611430", "541512", "541519", "541690">>

ALL_NAICS_CODES == DME_NAICS_CODES \o CONSULTING_NAICS_CODES

\* ",".join(codes)
RECURSIVE JoinCodes(_)
JoinCodes(codes) ==
    IF codes = <<>> THEN ""
    ELSE IF Len(codes) = 1 THEN codes[1]
    ELSE codes[1] \o "," \o JoinCodes(Tail(codes))

\* config.py, NAICS_CODES = ",".join(ALL_NAICS_CODES)
config_NAICS_CODES == JoinCodes(ALL_NAICS_CODES)

\* contract_scout.py, NAICS_CODES: the module's own literal
NAICS_CODES == "541611,541990,611430,541519,541720"

\* the params dict of search_sam_gov (the posting-date window apart)
SearchParams ==
    [api_key |-> Get(env, "SAM_API_KEY", ""), ptype |-> "o,k", naics |-> NAICS_CODES, limit |-> 100]

\* search_sam_gov on one response of the search service: requests.get raises
\* on a transport failure, raise_for_status on a 4xx or 5xx status, resp.json
\* on a body that is not JSON
search_sam_gov(resp) ==
    IF resp.error # "none" THEN Raised(resp.error)
    ELSE IF 400 <= resp.status /\ resp.status < 600 THEN Raised("HTTPError")
    ELSE IF resp.body = <<>> THEN Raised("JSONDecodeError")
    ELSE Returned(Get(resp.body[1], "opportunitiesData", <<>>))

IsSpace(chunk) == chunk.kind = "nl"

\* str.strip()
RECURSIVE LStrip(_)
LStrip(chunks) == IF chunks # <<>> /\ IsSpace(Head(chunks)) THEN LStrip(Tail(chunks)) ELSE chunks

RECURSIVE RStrip(_)
RStrip(chunks) == IF chunks # <<>> /\ IsSpace(chunks[Len(chunks)]) THEN RStrip(SubSeq(chunks, 1, Len(chunks) - 1)) ELSE chunks

StripText(chunks) == RStrip(LStrip(chunks))

\* raw.split("\n", 1): the parts before and after the first newline
SplitFirstLine(chunks) ==
    LET nls == {i \in 1..Len(chunks) : chunks[i].kind = "nl"}
    IN  IF nls = {} THEN <<chunks>>
        ELSE LET i == CHOOSE k \in nls : \A k2 \in nls : k <= k2
             IN  <<SubSeq(chunks, 1, i - 1), SubSeq(chunks, i + 1, Len(chunks))>>

\* raw.rsplit("```", 1)[0]: the part before the last fence
BeforeLastFence(chunks) ==
    LET fs == {i \in 1..Len(chunks) : chunks[i].kind = "fence"}
    IN  IF fs = {} THEN chunks
        ELSE SubSeq(chunks, 1, (CHOOSE k \in fs : \A k2 \in fs : k >= k2) - 1)

\* json.loads(raw): only a text that is one JSON document parses
JsonLoads(chunks) ==
    IF Len(chunks) = 1 /\ chunks[1].kind = "json" THEN Returned(chunks[1].value) ELSE Raised("JSONDecodeError")

\* mutant: a text that does not parse yields an empty list
ParseScoringResponseLenient(text) ==
    LET raw0 == StripText(text)
        raw1 == IF raw0 # <<>> /\ raw0[1].kind = "fence" /\ Len(SplitFirstLine(raw0)) = 2 THEN SplitFirstLine(raw0)[2] ELSE raw0
        raw2 == IF raw1 # <<>> /\ raw1[Len(raw1)].kind = "fence" THEN BeforeLastFence(raw1) ELSE raw1
        r == JsonLoads(StripText(raw2))
    IN  IF r.ok THEN r ELSE Returned(<<>>)

\* raw = message.content[0].text.strip(); the two fence rules; json.loads
ParseScoringResponse(text) ==
    LET raw0 == StripText(text)
    IN  IF raw0 # <<>> /\ raw0[1].kind = "fence" /\ Len(SplitFirstLine(raw0)) < 2 THEN Raised("IndexError")
        ELSE LET raw1 == IF raw0 # <<>> /\ raw0[1].kind = "fence" THEN SplitFirstLine(raw0)[2] ELSE raw0
                 raw2 == IF raw1 # <<>> /\ raw1[Len(raw1)].kind = "fence" THEN BeforeLastFence(raw1) ELSE raw1
             IN  JsonLoads(StripText(raw2))

\* score_map = {s["noticeId"]: s for s in scores}: a later entry replaces an
\* earlier one of the same noticeId
ScoreMap(scores) ==
    [nid \in {scores[i].noticeId : i \in 1..Len(scores)} |->
        scores[CHOOSE i \in 1..Len(scores) : scores[i].noticeId = nid /\ \A j \in 1..Len(scores) : scores[j].noticeId = nid => j <= i]]

\* the entry merge_results builds for one opportunity with a score entry
MergedEntry(opp, s) ==
    [noticeId |-> Get(opp, "noticeId", ""),
     title |-> Get(opp, "title", ""),
     solicitationNumber |-> Get(opp, "solicitationNumber", ""),
     naicsCode |-> Get(opp, "naicsCode", ""),
     agency |-> Get(opp, "fullParentPathName", Get(opp, "departmentName", "")),
     postedDate |-> Get(opp, "postedDate", ""),
     responseDeadLine |-> Get(opp, "responseDeadLine", ""),
     uiLink |-> Get(opp, "uiLink", ""),
     score |-> Get(s, "score", 0),
     reasoning |-> Get(s, "reasoning", ""),
     key_requirements |-> Get(s, "key_requirements", "")]

\* the loop of merge_results: one entry per opportunity found in score_map
RECURSIVE MergedList(_, _)
MergedList(opportunities, score_map) ==
    IF opportunities = <<>> THEN <<>>
    ELSE LET opp == Head(opportunities)
             nid == Get(opp, "noticeId", "")
         IN  (IF nid \in DOMAIN score_map THEN <<MergedEntry(opp, score_map[nid])>> ELSE <<>>) \o MergedList(Tail(opportunities), score_map)

\* mutant: an opportunity without a score entry is kept with score 0
MergeResultsKeepsUnscored(opportunities, scores) ==
    IF \E i \in 1..Len(scores) : "noticeId" \notin DOMAIN scores[i] THEN Raised("KeyError")
    ELSE Returned(SortedByScoreDesc([i \in 1..Len(opportunities) |->
            MergedEntry(opportunities[i], Get(ScoreMap(scores), Get(opportunities[i], "noticeId", ""), EmptyDict))]))

\* merge_results(opportunities, scores); s["noticeId"] raises KeyError on a
\* score entry without that key
merge_results(opportunities, scores) ==
    IF \E i \in 1..Len(scores) : "noticeId" \notin DOMAIN scores[i] THEN Raised("KeyError")
    ELSE Returned(SortedByScoreDesc(MergedList(opportunities, ScoreMap(scores))))

\* build_html(top): the count in the lead paragraph and one table row per
\* result, each value interpolated as it is
build_html(top) ==
    [count |-> Len(top),
     rows |-> [i \in 1..Len(top) |->
        [title |-> top[i].title,
         agency |-> top[i].agency,
         solicitationNumber |-> Get(top[i], "solicitationNumber", "N/A"),
         naicsCode |-> Get(top[i], "naicsCode", "N/A"),
         responseDeadLine |-> Get(top[i], "responseDeadLine", "N/A"),
         score |-> top[i].score,
         reasoning |-> top[i].reasoning,
         key_requirements |-> Get(top[i], "key_requirements", "N/A"),
         uiLink |-> Get(top[i], "uiLink", "#")]]]

\* mutant: a result at the threshold is left out
TopOfAboveThreshold(results) == SelectSeq(results, LAMBDA r : r.score > MIN_SCORE)

\* top = [r for r in results if r["score"] >= MIN_SCORE]
TopOf(results) == SelectSeq(results, LAMBDA r : r.score >= MIN_SCORE)

MaxBatch == 2

REQUIRED_VARS == <<"SAM_API_KEY", "ANTHROPIC_API_KEY">>
EMAIL_VARS == <<"GMAIL_ADDRESS", "GMAIL_APP_PASSWORD", "RECIPIENT_EMAIL">>

\* environments: every variable set, one of them unset or empty, both keys
\* unset, no mail variable set
EnvAllSet == [v \in Elems(REQUIRED_VARS) \cup Elems(EMAIL_VARS) |-> "value"]

EnvChoices ==
    {EnvAllSet}
    \cup {[v \in DOMAIN EnvAllSet \ {u} |-> EnvAllSet[v]] : u \in DOMAIN EnvAllSet}
    \cup {[EnvAllSet EXCEPT ![u] = ""] : u \in DOMAIN EnvAllSet}
    \cup {[v \in Elems(EMAIL_VARS) |-> "value"], [v \in Elems(REQUIRED_VARS) |-> "value"]}

\* opportunities as the search service returns them
FoundPool ==
    {[noticeId |-> "n1", title |-> "Lean training", solicitationNumber |-> "S-1", naicsCode |-> "541611", fullParentPathName |-> "GSA", departmentName |-> "General Services", postedDate |-> "2026-03-01", responseDeadLine |-> "2026-03-25", uiLink |-> "u1"],
     [noticeId |-> "n2", title |-> "Agile coaching", departmentName |-> "VA"]}

\* score entries as the scoring engine returns them: for n1 twice (at the
\* threshold and below it), for n2
\* without a score and with a score above 10, for an opportunity that was
\* never sent, without noticeId
ScorePool ==
    {[noticeId |-> "n1", score |-> 7, reasoning |-> "good fit", key_requirements |-> "training"],
     [noticeId |-> "n1", score |-> 3, reasoning |-> "on-site"],
     [noticeId |-> "n2", reasoning |-> "unclear"],
     [noticeId |-> "n9", score |-> 9, reasoning |-> "other"],
     [noticeId |-> "n2", score |-> 15, reasoning |-> "ideal"],
     [score |-> 5]}

Fence == [kind |-> "fence"]
Lang == [kind |-> "lang"]
NL == [kind |-> "nl"]
Prose == [kind |-> "text"]
Doc(v) == [kind |-> "json", value |-> v]

\* a fixed score list for the answers whose wrapping is what varies
OneScore == <<[noticeId |-> "n1", score |-> 8, reasoning |-> "good fit", key_requirements |-> "training"]>>

\* answers of the scoring engine: a JSON list bare or fenced, and texts that
\* are no JSON document
RawResponses ==
    {<<Doc(p)>> : p \in SeqsUpTo(ScorePool, MaxBatch)}
    \cup {<<Fence, Lang, NL, Doc(p), NL, Fence>> : p \in SeqsUpTo(ScorePool, MaxBatch)}
    \cup {<<NL, Doc(OneScore), NL>>, <<Fence, NL, Doc(OneScore), NL, Fence, NL>>, <<Doc(OneScore), NL, Fence>>,
          <<>>, <<Prose>>, <<Prose, NL, Doc(OneScore)>>, <<Doc(OneScore), NL, Prose>>,
          <<Fence, Lang, NL, Prose, NL, Fence>>, <<Fence, Doc(OneScore), Fence>>, <<Fence, Lang, NL, Doc(OneScore), Doc(OneScore), NL, Fence>>}

\* responses of the search service
SearchResponses ==
    {[error |-> e, status |-> 0, body |-> <<>>] : e \in {"ConnectionError", "Timeout"}}
    \cup {[error |-> "none", status |-> 200, body |-> <<[opportunitiesData |-> found]>>] : found \in SeqsUpTo(FoundPool, MaxBatch)}
    \cup {[error |-> "none", status |-> st, body |-> b] : st \in {200, 204, 302, 304, 404, 500}, b \in {<<>>, <<[totalRecords |-> 0]>>}}
    \cup {[error |-> "none", status |-> st, body |-> <<[opportunitiesData |-> <<CHOOSE o \in FoundPool : o.noticeId = "n1">>]>>] : st \in {302, 404, 500}}

RunDates == {"2026-03-01"}

\* the log file before the run: absent, or left by an earlier run
CsvBefore ==
    {[exists |-> FALSE, lines |-> <<>>],
     log_to_csv([exists |-> FALSE, lines |-> <<>>], <<[title |-> "Earlier", score |-> 7]>>, "2026-02-28")}

InitMain ==
    /\ entry = "main"
    /\ env \in EnvChoices
    /\ csv_file \in CsvBefore
    /\ csv_results = <<>> /\ csv_calls = 0
    /\ main_opportunities = <<>> /\ search_params = <<>> /\ search_response = <<>> /\ raw_response = <<>> /\ main_scores = <<>>
    /\ main_results = <<>> /\ main_top = <<>>
    /\ search_requests = 0 /\ scoring_requests = 0 /\ emails_sent = 0 /\ email_body = <<>> /\ warnings = 0
    /\ exit_status = "running"
    /\ pc = "start"
    /\ EmailIdle /\ ClassifierIdle /\ DeadlineIdle /\ CardIdle

\* main, lines 322-329: the required variables are checked, sys.exit(1)
ValidateEnv ==
    /\ entry = "main" /\ pc = "start"
    /\ IF \E i \in 1..Len(REQUIRED_VARS) : ~IsSet(REQUIRED_VARS[i])
       THEN exit_status' = "exit(1)" /\ pc' = "done"
       ELSE exit_status' = exit_status /\ pc' = "search"
    /\ UNCHANGED <<entry, env, main_opportunities, search_params, search_response, raw_response, main_scores, main_results, main_top, search_requests, scoring_requests, emails_sent, email_body, warnings>>
    /\ UNCHANGED <<emailVars, classifierVars, csvVars, deadlineVars, cardVars>>

\* mutant: main goes on to the scoring step with an empty list
SearchSamGovGoesOnWhenEmpty ==
    /\ entry = "main" /\ pc = "search"
    /\ search_requests' = search_requests + 1
    /\ \E resp \in SearchResponses :
          /\ search_params' = <<SearchParams>>
          /\ search_response' = <<resp>>
          /\ LET r == search_sam_gov(resp)
             IN  IF ~r.ok THEN exit_status' = "raised" /\ pc' = "done" /\ UNCHANGED main_opportunities
                 ELSE exit_status' = exit_status /\ pc' = "analyze" /\ main_opportunities' = r.value
    /\ UNCHANGED <<entry, env, raw_response, main_scores, main_results, main_top, scoring_requests, emails_sent, email_body, warnings>>
    /\ UNCHANGED <<emailVars, classifierVars, csvVars, deadlineVars, cardVars>>

\* main, lines 331-335: opportunities = search_sam_gov(); return when empty
SearchSamGov ==
    /\ entry = "main" /\ pc = "search"
    /\ search_requests' = search_requests + 1
    /\ \E resp \in SearchResponses :
          /\ search_params' = <<SearchParams>>
          /\ search_response' = <<resp>>
          /\ LET r == search_sam_gov(resp)
             IN  IF ~r.ok THEN exit_status' = "raised" /\ pc' = "done" /\ UNCHANGED main_opportunities
                 ELSE IF r.value = <<>> THEN exit_status' = "returned" /\ pc' = "done" /\ UNCHANGED main_opportunities
                 ELSE exit_status' = exit_status /\ pc' = "analyze" /\ main_opportunities' = r.value
    /\ UNCHANGED <<entry, env, raw_response, main_scores, main_results, main_top, scoring_requests, emails_sent, email_body, warnings>>
    /\ UNCHANGED <<emailVars, classifierVars, csvVars, deadlineVars, cardVars>>

\* main, line 338: scores = analyze_with_claude(opportunities); the request
\* itself may fail, or answer with any text
AnalyzeWithClaude ==
    /\ entry = "main" /\ pc = "analyze"
    /\ IF main_opportunities = <<>>
       THEN main_scores' = <<>> /\ pc' = "merge" /\ UNCHANGED <<scoring_requests, raw_response, exit_status>>
       ELSE /\ scoring_requests' = scoring_requests + 1
            /\ \/ exit_status' = "raised" /\ pc' = "done" /\ UNCHANGED <<raw_response, main_scores>>
               \/ \E raw \in RawResponses :
                     /\ raw_response' = <<raw>>
                     /\ LET r == ParseScoringResponse(raw)
                        IN  IF r.ok THEN main_scores' = r.value /\ pc' = "merge" /\ exit_status' = exit_status
                            ELSE exit_status' = "raised" /\ pc' = "done" /\ UNCHANGED main_scores
    /\ UNCHANGED <<entry, env, main_opportunities, search_params, search_response, main_results, main_top, search_requests, emails_sent, email_body, warnings>>
    /\ UNCHANGED <<emailVars, classifierVars, csvVars, deadlineVars, cardVars>>

\* main, lines 341-342: results = merge_results(...); top = [...]
MergeAndFilter ==
    /\ entry = "main" /\ pc = "merge"
    /\ LET r == merge_results(main_opportunities, main_scores)
       IN  IF r.ok THEN main_results' = r.value /\ main_top' = TopOf(r.value) /\ pc' = "log" /\ exit_status' = exit_status
           ELSE exit_status' = "raised" /\ pc' = "done" /\ UNCHANGED <<main_results, main_top>>
    /\ UNCHANGED <<entry, env, main_opportunities, search_params, search_response, raw_response, main_scores, search_requests, scoring_requests, emails_sent, email_body, warnings>>
    /\ UNCHANGED <<emailVars, classifierVars, csvVars, deadlineVars, cardVars>>

\* mutant: the found opportunities are logged while scoring is still to come
LogResultsBeforeScoring ==
    /\ entry = "main" /\ pc \in {"analyze", "log"} /\ csv_calls = 0
    /\ \E today \in RunDates : csv_file' = log_to_csv(csv_file, main_results, today)
    /\ csv_results' = main_results
    /\ csv_calls' = csv_calls + 1
    /\ pc' = (IF pc = "log" THEN "email" ELSE pc)
    /\ UNCHANGED <<runVars, emailVars, classifierVars, deadlineVars, cardVars>>

\* main, line 351: log_to_csv(results)
LogResults ==
    /\ entry = "main" /\ pc = "log"
    /\ \E today \in RunDates : csv_file' = log_to_csv(csv_file, main_results, today)
    /\ csv_results' = main_results
    /\ csv_calls' = csv_calls + 1
    /\ pc' = "email"
    /\ UNCHANGED <<runVars, emailVars, classifierVars, deadlineVars, cardVars>>

\* mutant: the report is sent whenever there is a top result
EmailTopWithoutCredentials ==
    /\ entry = "main" /\ pc = "email"
    /\ pc' = "done"
    /\ IF main_top # <<>>
       THEN emails_sent' = emails_sent + 1 /\ email_body' = <<build_html(main_top)>> /\ exit_status' = "returned" /\ UNCHANGED warnings
       ELSE exit_status' = "returned" /\ UNCHANGED <<emails_sent, email_body, warnings>>
    /\ UNCHANGED <<entry, env, main_opportunities, search_params, search_response, raw_response, main_scores, main_results, main_top, search_requests, scoring_requests>>
    /\ UNCHANGED <<emailVars, classifierVars, csvVars, deadlineVars, cardVars>>

\* main, lines 354-367: the report is sent when there is a top result and
\* the three mail variables are set; the SMTP exchange may fail
EmailTop ==
    /\ entry = "main" /\ pc = "email"
    /\ pc' = "done"
    /\ IF main_top # <<>>
       THEN IF \A i \in 1..Len(EMAIL_VARS) : IsSet(EMAIL_VARS[i])
            THEN \/ emails_sent' = emails_sent + 1 /\ email_body' = <<build_html(main_top)>> /\ exit_status' = "returned" /\ UNCHANGED warnings
                 \/ exit_status' = "raised" /\ UNCHANGED <<emails_sent, email_body, warnings>>
            ELSE warnings' = warnings + 1 /\ exit_status' = "returned" /\ UNCHANGED <<emails_sent, email_body>>
       ELSE exit_status' = "returned" /\ UNCHANGED <<emails_sent, email_body, warnings>>
    /\ UNCHANGED <<entry, env, main_opportunities, search_params, search_response, raw_response, main_scores, main_results, main_top, search_requests, scoring_requests>>
    /\ UNCHANGED <<emailVars, classifierVars, csvVars, deadlineVars, cardVars>>

NextMain == ValidateEnv \/ SearchSamGov \/ AnalyzeWithClaude \/ MergeAndFilter \/ LogResults \/ EmailTop

(***************************************************************************)
(* dme_analyzer.py: DMEAnalyzer.analyze and analyze_consulting             *)
(***************************************************************************)

\* d[k] = v on a dict
With(d, k, v) == [x \in DOMAIN d \cup {k} |-> IF x = k THEN v ELSE d[x]]

\* lookup = {opp.get("noticeId", ""): opp for opp in opportunities}
Lookup(opportunities) ==
    [nid \in {Get(opportunities[i], "noticeId", "") : i \in 1..Len(opportunities)} |->
        opportunities[CHOOSE i \in 1..Len(opportunities) :
            /\ Get(opportunities[i], "noticeId", "") = nid
            /\ \A j \in 1..Len(opportunities) : Get(opportunities[j], "noticeId", "") = nid => j <= i]]

\* the loop body of analyze: the result tagged with its category and with
\* the category note in front of its highlights
TagDme(result, lookup) ==
    LET nid == Get(result, "noticeId", "")
        opp == Get(lookup, nid, EmptyDict)
        cat == _detect_category(Get(opp, "title", <<>>), Get(opp, "description", <<>>)).category
        cat_note == <<"Category: ", cat>>
        highlights == Get(result, "opportunity_highlights", <<>>)
        tagged == With(result, "category", cat)
    IN  IF InSeq(cat_note, highlights) THEN tagged ELSE With(tagged, "opportunity_highlights", <<cat_note>> \o highlights)

\* the loop body of analyze_consulting
TagConsulting(result, lookup) ==
    LET nid == Get(result, "noticeId", "")
        opp == Get(lookup, nid, EmptyDict)
        cat == _detect_consulting_category(Get(opp, "title", <<>>), Get(opp, "description", <<>>)).category
    IN  With(With(result, "category", cat), "business_model", "Solo Consulting")

\* analyze(opportunities) on the text the engine answered with
analyze(opportunities, raw) ==
    LET r == ParseScoringResponse(raw)
    IN  IF ~r.ok THEN r
        ELSE Returned([i \in 1..Len(r.value) |-> TagDme(r.value[i], Lookup(opportunities))])

\* analyze_consulting(opportunities) on the text the engine answered with
analyze_consulting(opportunities, raw) ==
    LET r == ParseScoringResponse(raw)
    IN  IF ~r.ok THEN r
        ELSE Returned([i \in 1..Len(r.value) |-> TagConsulting(r.value[i], Lookup(opportunities))])

\* opportunities submitted to the analyzer
DmeSubmitPool ==
    {[noticeId |-> "n1", title |-> <<"m", "o", "b", "i", "l", "i", "t", "y", " ", "s", "c", "o", "o", "t", "e", "r">>, description |-> <<"w", "a", "l", "k", "e", "r">>],
     [noticeId |-> "n2", title |-> <<"o", "f", "f", "i", "c", "e", " ", "s", "u", "p", "p", "l", "i", "e", "s">>]}

ConsultingSubmitPool ==
    {[noticeId |-> "n1", title |-> <<"l", "e", "a", "n", " ", "w", "o", "r", "k", "s", "h", "o", "p">>, description |-> <<"a", "g", "i", "l", "e">>],
     [noticeId |-> "n2", title |-> <<"o", "f", "f", "i", "c", "e", " ", "s", "u", "p", "p", "l", "i", "e", "s">>]}

InitAnalyzer ==
    /\ entry \in {"analyze", "analyze_consulting"}
    /\ main_opportunities \in SeqsUpTo(IF entry = "analyze" THEN DmeSubmitPool ELSE ConsultingSubmitPool, MaxBatch)
    /\ env = <<>> /\ search_params = <<>> /\ search_response = <<>> /\ raw_response = <<>> /\ main_scores = <<>>
    /\ main_results = <<>> /\ main_top = <<>>
    /\ search_requests = 0 /\ scoring_requests = 0 /\ emails_sent = 0 /\ email_body = <<>> /\ warnings = 0
    /\ exit_status = "running"
    /\ pc = "start"
    /\ EmailIdle /\ ClassifierIdle /\ DeadlineIdle /\ CardIdle /\ CsvIdle

\* one call of an analyzer method, run to its return or to the exception
AnalyzerCall(method) ==
    /\ pc = "start"
    /\ pc' = "done"
    /\ IF main_opportunities = <<>>
       THEN main_results' = <<>> /\ exit_status' = "returned" /\ UNCHANGED <<scoring_requests, raw_response>>
       ELSE /\ scoring_requests' = scoring_requests + 1
            /\ \/ exit_status' = "raised" /\ UNCHANGED <<raw_response, main_results>>
               \/ \E raw \in RawResponses :
                     /\ raw_response' = <<raw>>
                     /\ LET r == IF method = "analyze" THEN analyze(main_opportunities, raw) ELSE analyze_consulting(main_opportunities, raw)
                        IN  IF r.ok THEN main_results' = r.value /\ exit_status' = "returned"
                            ELSE exit_status' = "raised" /\ UNCHANGED main_results
    /\ UNCHANGED <<entry, env, main_opportunities, search_params, search_response, main_scores, main_top, search_requests, emails_sent, email_body, warnings>>
    /\ UNCHANGED <<emailVars, classifierVars, csvVars, deadlineVars, cardVars>>

Analyze == entry = "analyze" /\ AnalyzerCall("analyze")

AnalyzeConsulting == entry = "analyze_consulting" /\ AnalyzerCall("analyze_consulting")

InitRun == InitMain \/ InitAnalyzer

NextRun == ValidateEnv \/ SearchSamGov \/ AnalyzeWithClaude \/ MergeAndFilter \/ LogResults \/ EmailTop \/ Analyze \/ AnalyzeConsulting

SpecRun == InitRun /\ [][NextRun]_vars

(***************************************************************************)
(* Reading a run of main                                                   *)
(***************************************************************************)

\* an environment variable that is unset, and one that is unset or empty
Unset(var) == var \notin DOMAIN env
UnsetOrEmpty(var) == var \notin DOMAIN env \/ env[var] = ""

\* nothing has touched the log file, and nothing was sent
NoCsvWrite == csv_calls = 0 /\ csv_file \in CsvBefore
NoEmail == emails_sent = 0

\* C15: with SAM_API_KEY or ANTHROPIC_API_KEY unset or empty at the start of
\* main, the process exits with status 1 before any search request, scoring
\* request, CSV write or email send has happened.
C15_MissingKeyExitsFirst ==
    (entry = "main" /\ (UnsetOrEmpty("SAM_API_KEY") \/ UnsetOrEmpty("ANTHROPIC_API_KEY"))) =>
        /\ search_requests = 0
        /\ scoring_requests = 0
        /\ NoCsvWrite
        /\ NoEmail
        /\ pc \in {"start", "done"}
        /\ (pc = "done" => exit_status = "exit(1)")

\* main has exited with status 1 on an ANTHROPIC_API_KEY that is set to ""
C15_Witness ==
    /\ entry = "main"
    /\ pc = "done"
    /\ exit_status = "exit(1)"
    /\ "ANTHROPIC_API_KEY" \in DOMAIN env /\ env["ANTHROPIC_API_KEY"] = ""
    /\ ~UnsetOrEmpty("SAM_API_KEY")

\* what follows a failed search: the run is over with the error, the one
\* request was the only one, nothing was scored, logged or sent
AbortedAtSearch ==
    /\ pc = "done"
    /\ exit_status = "raised"
    /\ search_requests = 1
    /\ scoring_requests = 0
    /\ NoCsvWrite
    /\ NoEmail

WithoutFences(text) == SelectSeq(text, LAMBDA c : c.kind \notin {"fence", "lang", "nl"})

\* what is left is exactly one JSON document
ParseableJson(text) == Len(WithoutFences(text)) = 1 /\ WithoutFences(text)[1].kind = "json"

\* C17: when the answer of the scoring engine, fence markers stripped, is not
\* parseable JSON, the scoring operation (analyze_with_claude, analyze,
\* analyze_consulting) fails with an error and yields no results at all, and
\* a run of main ends there without a CSV row and without an email.
C17_UnparseableAnswerIsFatal ==
    (raw_response # <<>> /\ ~ParseableJson(raw_response[1])) =>
        /\ pc = "done"
        /\ exit_status = "raised"
        /\ main_scores = <<>> /\ main_results = <<>> /\ main_top = <<>>
        /\ csv_calls = 0 /\ csv_file \in CsvBefore
        /\ NoEmail

\* main has ended on an answer that holds a JSON list followed by prose
C17_Witness ==
    /\ entry = "main"
    /\ raw_response = <<(<<Doc(OneScore), NL, Prose>>)>>
    /\ pc = "done"
    /\ exit_status = "raised"
    /\ scoring_requests = 1

\* the run found opportunities and the scoring engine answered with a list
\* of score entries that each carry a noticeId, one of them that of a found
\* opportunity
FoundAndScored ==
    /\ entry = "main"
    /\ main_opportunities # <<>>
    /\ raw_response # <<>>
    /\ ParseScoringResponse(raw_response[1]).ok
    /\ main_scores = ParseScoringResponse(raw_response[1]).value
    /\ \A i \in 1..Len(main_scores) : "noticeId" \in DOMAIN main_scores[i]
    /\ \E k \in 1..Len(main_opportunities), i \in 1..Len(main_scores) : main_opportunities[k].noticeId = main_scores[i].noticeId

SomeMailVarUnset == \E i \in 1..Len(EMAIL_VARS) : Unset(EMAIL_VARS[i])

\* the finished run added one row per merged result to the log file
AllResultsLogged ==
    /\ csv_calls = 1
    /\ csv_results = main_results
    /\ \E before \in CsvBefore :
          /\ IsPrefixOf(before.lines, csv_file.lines)
          /\ DataRowCount(csv_file.lines) = DataRowCount(before.lines) + Len(main_results)
    /\ Cardinality(HeaderPositions(csv_file.lines)) = 1

MeetsThreshold == \E i \in 1..Len(main_results) : main_results[i].score >= 7

\* C18 as stated: with one of GMAIL_ADDRESS, GMAIL_APP_PASSWORD,
\* RECIPIENT_EMAIL unset, a run that found and scored opportunities appends
\* all merged results to the CSV, sends no email, logs a warning, and
\* finishes normally.
C18_NoMailVarsStillLogs ==
    (FoundAndScored /\ SomeMailVarUnset /\ pc = "done") =>
        /\ AllResultsLogged
        /\ NoEmail
        /\ warnings = 1
        /\ exit_status = "returned"

\* C18 as the code has it: the warning is logged exactly when some merged
\* result scores 7 or more, that is, when there was a report to send.
C18_NoMailVarsWarnsWhenTopExists ==
    (FoundAndScored /\ SomeMailVarUnset /\ pc = "done") =>
        /\ AllResultsLogged
        /\ NoEmail
        /\ warnings = (IF MeetsThreshold THEN 1 ELSE 0)
        /\ exit_status = "returned"

\* a run without RECIPIENT_EMAIL has finished with a result of score 8 in
\* the log file and the warning logged
C18_Witness ==
    /\ FoundAndScored /\ pc = "done"
    /\ Unset("RECIPIENT_EMAIL") /\ ~Unset("GMAIL_ADDRESS") /\ ~Unset("GMAIL_APP_PASSWORD")
    /\ MeetsThreshold
    /\ warnings = 1
    /\ csv_calls = 1
    /\ exit_status = "returned"

(***************************************************************************)
(* Reading merge_results                                                   *)
(***************************************************************************)

NoticeIdOf(d) == IF "noticeId" \in DOMAIN d THEN d.noticeId ELSE ""

ScoredIds == {main_scores[i].noticeId : i \in 1..Len(main_scores)}

\* how many entries of a list carry a notice id
CountOf(list, nid) == Cardinality({i \in 1..Len(list) : NoticeIdOf(list[i]) = nid})

\* the scores the engine gave a notice id, a missing score read as 0
ScoresGiven(nid) ==
    {IF "score" \in DOMAIN main_scores[i] THEN main_scores[i].score ELSE 0 : i \in {k \in 1..Len(main_scores) : main_scores[k].noticeId = nid}}

\* C19: merge_results returns one entry for each input opportunity whose
\* noticeId has a score entry and none for any other, invents no entry, and
\* returns the list in non-increasing score order with a missing score
\* counted as 0.
C19_MergeKeepsScoredOnly ==
    (entry = "main" /\ pc = "log") =>
        /\ \A i \in 1..Len(main_results) : main_results[i].noticeId \in ScoredIds
        /\ \A nid \in ScoredIds : CountOf(main_results, nid) = CountOf(main_opportunities, nid)
        /\ \A i \in 1..Len(main_results) :
              /\ main_results[i].score \in ScoresGiven(main_results[i].noticeId)
              /\ \E k \in 1..Len(main_opportunities) :
                    /\ NoticeIdOf(main_opportunities[k]) = main_results[i].noticeId
                    /\ main_results[i].title = main_opportunities[k].title
        /\ \A i \in 1..(Len(main_results) - 1) : main_results[i].score >= main_results[i + 1].score

\* two opportunities merged with an entry of score 7 and an entry without a
\* score: the scored one first, the other with score 0
C19_Witness ==
    /\ entry = "main" /\ pc = "log"
    /\ Len(main_opportunities) = 2
    /\ main_opportunities[1].noticeId = "n2" /\ main_opportunities[2].noticeId = "n1"
    /\ Len(main_results) = 2
    /\ main_results[1].noticeId = "n1" /\ main_results[1].score = 7
    /\ main_results[2].noticeId = "n2" /\ main_results[2].score = 0

(***************************************************************************)
(* Reading the analyzer                                                    *)
(***************************************************************************)

SubmittedIds == {NoticeIdOf(main_opportunities[i]) : i \in 1..Len(main_opportunities)}

\* C20: in analyze and analyze_consulting a scored item whose noticeId is not
\* the identifier of a submitted opportunity is excluded from the returned
\* list.
C20_UnknownNoticeIdExcluded ==
    (entry \in {"analyze", "analyze_consulting"} /\ pc = "done" /\ exit_status = "returned") =>
        \A i \in 1..Len(main_results) : "noticeId" \in DOMAIN main_results[i] => main_results[i].noticeId \in SubmittedIds

(***************************************************************************)
(* Reading the outputs of a run                                            *)
(***************************************************************************)

\* the column of a CSV line that holds the score
ScoreColumn == CHOOSE i \in 1..Len(HeaderLine) : HeaderLine[i] = "score"

\* the scores written to the log file and those shown in the message sent
CsvScores == {csv_file.lines[i][ScoreColumn] : i \in {k \in 1..Len(csv_file.lines) : csv_file.lines[k] # HeaderLine}}

EmailScores == IF email_body = <<>> THEN {} ELSE {email_body[1].rows[i].score : i \in 1..Len(email_body[1].rows)}

\* C21: every score that reaches an output (a CSV row, an email row) lies in
\* 1..10; a value outside that range returned by the scoring engine is
\* clamped or reported and never passed through unchanged.
C21_OutputScoresInRange ==
    entry = "main" => \A sc \in CsvScores \cup EmailScores : sc \in 1..10

(***************************************************************************)
(* Reading the search request                                              *)
(***************************************************************************)

\* the two per-track code lists of the configuration, one after the other,
\* with a comma between neighbours
ConfiguredCodes == <<"423450", "532283", "446199", "423460", "541611", "541618", "611430", "541512", "541519", "541690">>

ConfiguredCodesJoined == "423450,532283,446199,423460,541611,541618,611430,541512,541519,541690"

\* C22: the classification-code parameter of the search request is the
\* comma-joined combination of DME_NAICS_CODES followed by
\* CONSULTING_NAICS_CODES, and the two lists have no code in common.
C22_SearchUsesConfiguredCodes ==
    /\ Elems(DME_NAICS_CODES) \cap Elems(CONSULTING_NAICS_CODES) = {}
    /\ DME_NAICS_CODES \o CONSULTING_NAICS_CODES = ConfiguredCodes
    /\ search_params # <<>> => search_params[1].naics = ConfiguredCodesJoined

(***************************************************************************)
(* Reading the effect of create_opportunity_email                          *)
(***************************************************************************)

\* one call: the two lists, element by element and field by field, the log
\* file and the messages sent are after the call what they were before
CallLeavesNoTrace ==
    (pc = "start" /\ pc' = "done" /\ html' # <<>>) =>
        /\ Len(dme_opportunities') = Len(dme_opportunities)
        /\ \A i \in 1..Len(dme_opportunities) : dme_opportunities'[i] = dme_opportunities[i]
        /\ Len(consulting_opportunities') = Len(consulting_opportunities)
        /\ \A i \in 1..Len(consulting_opportunities) : consulting_opportunities'[i] = consulting_opportunities[i]
        /\ csv_file' = csv_file /\ csv_calls' = csv_calls
        /\ emails_sent' = emails_sent /\ email_body' = email_body

StepsDone == [search |-> search_requests, scoring |-> scoring_requests, csv |-> csv_calls, email |-> emails_sent]

\* one step of main: each external step happens when the steps before it
\* have happened once and neither it nor a later one has happened yet
StepInOrder ==
    /\ search_requests' # search_requests =>
          /\ StepsDone = [search |-> 0, scoring |-> 0, csv |-> 0, email |-> 0]
          /\ search_requests' = 1
    /\ scoring_requests' # scoring_requests =>
          /\ StepsDone = [search |-> 1, scoring |-> 0, csv |-> 0, email |-> 0]
          /\ search_response # <<>>
          /\ scoring_requests' = 1
    /\ csv_calls' # csv_calls =>
          /\ StepsDone = [search |-> 1, scoring |-> 1, csv |-> 0, email |-> 0]
          /\ raw_response # <<>>
          /\ csv_calls' = 1
    /\ emails_sent' # emails_sent =>
          /\ StepsDone = [search |-> 1, scoring |-> 1, csv |-> 1, email |-> 0]
          /\ Len(csv_file.lines) >= 2
          /\ emails_sent' = 1

\* C24: in every execution of main the external steps happen at most once
\* each and only in the order search, scoring, CSV append, email send.
C24_StepsOnceAndInOrder == [][entry = "main" => StepInOrder]_vars

\* a run in which all four steps have happened
C24_Witness ==
    /\ entry = "main" /\ pc = "done"
    /\ StepsDone = [search |-> 1, scoring |-> 1, csv |-> 1, email |-> 1]
    /\ exit_status = "returned"

(***************************************************************************)
(* Reading the wheelchair rule of the DME classifier                       *)
(***************************************************************************)

PowerAndManual == {"Wheelchairs - Power", "Wheelchairs - Manual"}

\* C25: in the DME classifier a scan that matches both 'Wheelchairs - Power'
\* and 'Wheelchairs - Manual' drops Manual before the categories are
\* counted: the text is never classified 'Wheelchairs - Manual', and with
\* exactly one more category matched it is classified 'Wheelchairs - Power',
\* not 'Mixed DME'.  The consulting classifier drops nothing: its list of
\* matches holds every category of the scanned text.
C25_PowerRemovesManual ==
    (pc = "done" /\ vocab # "none") =>
        LET s == ScannedCategories
        IN  /\ (vocab = "dme" /\ PowerAndManual \subseteq s) =>
                  /\ Elems(matched) = s \ {"Wheelchairs - Manual"}
                  /\ category # "Wheelchairs - Manual"
                  /\ Cardinality(s) = 3 => category = "Wheelchairs - Power"
                  /\ Cardinality(s) >= 4 => category = "Mixed DME"
            /\ vocab = "consulting" =>
                  /\ Elems(matched) = s
                  /\ Len(matched) = Cardinality(s)
                  /\ Cardinality(s) >= 3 => category = "Management Consulting"

\* classified 'Wheelchairs - Power': a DME text that matches Power, Manual
\* and one more category
C25_Witness ==
    /\ pc = "done" /\ vocab = "dme"
    /\ PowerAndManual \subseteq ScannedCategories
    /\ Cardinality(ScannedCategories) = 3
    /\ category = "Wheelchairs - Power"

(***************************************************************************)
(* Reading the net-potential figures                                       *)
(***************************************************************************)

\* the net profit an opportunity states, in cents, 0 when it states none
StatedCents(o) == IF HasKey(o, "estimated_profit") /\ "net_profit" \in DOMAIN o.estimated_profit THEN o.estimated_profit.net_profit ELSE 0

\* the sum over the Qualified opportunities of a list, in cents
RECURSIVE QualifiedCents(_)
QualifiedCents(input) ==
    IF input = <<>> THEN 0
    ELSE (IF MeetsQualified(Head(input)) THEN StatedCents(Head(input)) ELSE 0) + QualifiedCents(Tail(input))

\* the sum of the figures of the category headers of a section
RECURSIVE SubtotalsShown(_)
SubtotalsShown(lines) ==
    IF lines = <<>> THEN 0
    ELSE (IF Head(lines).kind = "cat-hdr" THEN Head(lines).profit ELSE 0) + SubtotalsShown(Tail(lines))

\* the figures of one track: the Qualified section of the HTML and of the
\* plain text, the summary box and the plain-text head
Figures ==
    {[input |-> dme_opportunities, section |-> html.part1.no_pp[1].net_potential, plain_section |-> plain.part1.no_pp[1].net_potential,
      subtotals |-> SubtotalsShown(html.part1.no_pp), summary |-> html.summary.dme_profit, head |-> plain.head.dme_profit],
     [input |-> consulting_opportunities, section |-> html.part2.no_pp[1].net_potential, plain_section |-> plain.part2.no_pp[1].net_potential,
      subtotals |-> SubtotalsShown(html.part2.no_pp), summary |-> html.summary.con_profit, head |-> plain.head.con_profit]}

\* an amount in cents to the nearest dollar, a tie to the even one
Distance(a, b) == IF a >= b THEN a - b ELSE b - a

NearestDollar(cents) ==
    LET lo == cents \div 100
    IN  CHOOSE d \in {lo, lo + 1} :
            \A e \in {lo, lo + 1} \ {d} :
                \/ Distance(100 * d, cents) < Distance(100 * e, cents)
                \/ Distance(100 * d, cents) = Distance(100 * e, cents) /\ d % 2 = 0

\* the figures of a track agree with the sum, shown in whole dollars, and
\* with each other
FiguresAgree(f) ==
    /\ f.section = NearestDollar(QualifiedCents(f.input))
    /\ f.plain_section = f.section
    /\ f.subtotals = f.section
    /\ f.summary = f.section
    /\ f.head = f.section

WholeDollars(input) == \A i \in 1..Len(input) : MeetsQualified(input[i]) => StatedCents(input[i]) % 100 = 0

\* C26 as stated: for each track the net potential printed for the Qualified
\* section equals the sum of net_profit over exactly the Qualified
\* opportunities, the sum of the per-category subtotals printed beneath it,
\* and the figure printed for the track in the summary.
C26_NetPotentialAdds ==
    pc = "done" /\ html # <<>> => \A f \in Figures : FiguresAgree(f)

\* C26 for whole amounts: the same equalities when every Qualified
\* opportunity of the track states a whole number of dollars.
C26_NetPotentialAddsForWholeDollars ==
    pc = "done" /\ html # <<>> => \A f \in Figures : WholeDollars(f.input) => FiguresAgree(f)

\* rendered: a DME list with Qualified opportunities of whole amounts in two
\* categories
C26_Witness ==
    /\ pc = "done" /\ html # <<>>
    /\ WholeDollars(dme_opportunities)
    /\ Len(LinesOfKind(html.part1.no_pp, "cat-hdr")) = 2
    /\ html.part1.no_pp[1].net_potential = 200
    /\ html.summary.dme_profit = 200

(***************************************************************************)
(* Reading the classifier's labels against the display order               *)
(***************************************************************************)

\* the display order list of the vocabulary under test
DisplayOrder == IF vocab = "dme" THEN CATEGORY_ORDER ELSE CONSULTING_CATEGORY_ORDER

\* C27: every category label a track's classifier returns (a category of its
\* table, its catch-all, its default) is an entry of that track's display
\* order list, so that no classified opportunity is grouped after the
\* listed categories.
C27_LabelsAreListed ==
    (pc = "done" /\ vocab # "none") =>
        /\ category \in Elems(DisplayOrder)
        /\ TableCategories \cup {CatchAll, DefaultCategory} \subseteq Elems(DisplayOrder)

(***************************************************************************)
(* Reading what a scored run logs and sends                                *)
(***************************************************************************)

\* the search found opportunities and the scoring engine answered with a
\* list of entries that each carry a noticeId
SearchedAndScored ==
    /\ entry = "main"
    /\ main_opportunities # <<>>
    /\ raw_response # <<>>
    /\ ParseScoringResponse(raw_response[1]).ok
    /\ main_scores = ParseScoringResponse(raw_response[1]).value
    /\ \A i \in 1..Len(main_scores) : "noticeId" \in DOMAIN main_scores[i]

\* the merged results of score 7 or more, in the order of the merged list
ReportWorthy == SelectSeq(main_results, LAMBDA r : r.score >= 7)

MailConfigured == \A v \in {"GMAIL_ADDRESS", "GMAIL_APP_PASSWORD", "RECIPIENT_EMAIL"} : ~UnsetOrEmpty(v)

\* the last rows of the log file are the merged results, one each, in order
ResultsAreLastRows ==
    LET n == Len(main_results)
        lines == csv_file.lines
    IN  /\ Len(lines) >= n
        /\ \A i \in 1..n :
              /\ lines[Len(lines) - n + i][ScoreColumn] = main_results[i].score
              /\ lines[Len(lines) - n + i][2] = main_results[i].title

\* the message sent shows the report-worthy results, one row each, in order
BodyShowsReportWorthy ==
    /\ email_body # <<>>
    /\ email_body[1].count = Len(ReportWorthy)
    /\ Len(email_body[1].rows) = Len(ReportWorthy)
    /\ \A i \in 1..Len(ReportWorthy) :
          /\ email_body[1].rows[i].title = ReportWorthy[i].title
          /\ email_body[1].rows[i].score = ReportWorthy[i].score
    /\ \A i \in 1..(Len(email_body[1].rows) - 1) : email_body[1].rows[i].score >= email_body[1].rows[i + 1].score

EmptySearch ==
    /\ entry = "main"
    /\ search_response # <<>>
    /\ search_response[1].error = "none"
    /\ ~(400 <= search_response[1].status /\ search_response[1].status < 600)
    /\ search_response[1].body # <<>>
    /\ Get(search_response[1].body[1], "opportunitiesData", <<>>) = <<>>

\* C29: when the search returns an empty list, main ends normally without a
\* scoring request, without creating or appending to the CSV file (no header
\* either) and without sending an email.
C29_EmptySearchEndsQuietly ==
    EmptySearch =>
        /\ pc = "done"
        /\ exit_status = "returned"
        /\ search_requests = 1
        /\ scoring_requests = 0
        /\ raw_response = <<>>
        /\ NoCsvWrite
        /\ csv_results = <<>>
        /\ NoEmail /\ email_body = <<>>

\* a run has ended on a 200 answer with an empty list, and the log file is
\* still absent
C29_Witness ==
    /\ EmptySearch
    /\ pc = "done"
    /\ search_response[1].status = 200
    /\ "opportunitiesData" \in DOMAIN search_response[1].body[1]
    /\ csv_file.exists = FALSE
    /\ exit_status = "returned"

(***************************************************************************)
(* Reading the markup of a card                                            *)
(***************************************************************************)

MarkupChars == {"&", "<", ">", "\"", "'"}

\* the character references html.escape writes, by character
EntityName == [c \in MarkupChars |->
    CASE c = "&" -> <<"a", "m", "p">>
      [] c = "<" -> <<"l", "t">>
      [] c = ">" -> <<"g", "t">>
      [] c = "\"" -> <<"q", "u", "o", "t">>
      [] OTHER -> <<"#", "x", "2", "7">>]

\* a text with every markup character written as its character reference
RECURSIVE HtmlEscaped(_)
HtmlEscaped(text) ==
    IF text = <<>> THEN <<>>
    ELSE LET c == text[Len(text)]
             before == HtmlEscaped(SubSeq(text, 1, Len(text) - 1))
         IN  IF c \in MarkupChars THEN before \o <<"&">> \o EntityName[c] \o <<";">> ELSE Append(before, c)

\* every string of the opportunity is written escaped
StringsAreEscaped(text) == \A i \in 1..Len(text) : text[i].kind = "val" => text[i].chars = HtmlEscaped(text[i].raw)

\* how many tags a written string opens between tags, and how many times it
\* closes the attribute it is written in
TagOpeners == {"a", "b", "i", "/", "!", "?"}

TagsOpened(chars) == Cardinality({i \in 1..(Len(chars) - 1) : chars[i] = "<" /\ chars[i + 1] \in TagOpeners})

QuotesClosed(chars) == Cardinality({i \in 1..Len(chars) : chars[i] = "'"})

\* the tag structure of a text: the template's pieces as they are, and of
\* each written string only the markup it adds
TagStructure(text) ==
    [i \in 1..Len(text) |->
        CASE text[i].kind = "lit" -> [kind |-> "lit", text |-> text[i].text, added |-> 0]
          [] text[i].kind = "gen" -> [kind |-> "gen", text |-> "", added |-> 0]
          [] OTHER -> [kind |-> "val", text |-> text[i].ctx,
                       added |-> IF text[i].ctx = "attr" THEN QuotesClosed(text[i].chars) ELSE TagsOpened(text[i].chars)]]

\* the same text with a letter in the place of every markup character
WithoutMarkup(t) == [i \in 1..Len(t) |-> IF t[i] \in MarkupChars THEN "x" ELSE t[i]]

\* the same opportunity with every string and every list entry so changed
OppWithoutMarkup(opp) ==
    [k \in DOMAIN opp |->
        IF k \in StringFields THEN WithoutMarkup(opp[k])
        ELSE IF k \in ListFields THEN [i \in 1..Len(opp[k]) |-> WithoutMarkup(opp[k][i])]
        ELSE opp[k]]

\* C30: every string of the opportunity that the HTML card shows (title,
\* agency, solicitation number, posted date, deadline, items, highlights,
\* risks, reasons, link) is HTML-escaped before it is written, also a
\* deadline that matches none of the accepted date formats; an input that
\* differs only in markup characters gives the same tag structure.
C30_CardStringsAreEscaped ==
    (pc = "done" /\ card_html # <<>>) =>
        /\ StringsAreEscaped(card_html)
        /\ TagStructure(card_html) = TagStructure(CardText(card_rank, OppWithoutMarkup(card_opp), card_is_dme, utc_today))

====
